---- MODULE Spec2Model ----
(***************************************************************************)
(* Model of rackspace-email-management: the incremental, fingerprint-gated *)
(* driver (sync-inc.py), the full reconcile driver (sync.py) and the       *)
(* entity classes of the rackspace package they call.                      *)
(*                                                                         *)
(* The remote provider is the environment: the status of every response is *)
(* a nondeterministic input of the step that issues the request.           *)
(***************************************************************************)
EXTENDS Naturals, Integers, Sequences, FiniteSets, TLC

\* ------------------------------------------------------------------ bounds
\* At most this many sync files (json or md5) exist in the sync directory.
MaxEnt == 2

\* ------------------------------------------------------- sync-inc.py: data
\* sync-inc.py:18
KEYS == <<"account", "alias", "spam", "blocklist", "ipblocklist", "safelist", "ipsafelist">>

\* Every type treated as removable.
REMOVE_all == {KEYS[i] : i \in 1..Len(KEYS)}

\* sync-inc.py:19
REMOVE == {"account", "alias"}

\* spam.py:27
VALID_ACL == {"blocklist", "ipblocklist", "safelist", "ipsafelist"}

\* A sync file is named <name>@<domain>-<type>; the empty name is the domain
\* itself (init_obj turns it into None).  Accounts and aliases are named.
Files ==
    {<<n, "account">> : n \in {"amy", "bob"}} \cup
    {<<n, "alias">> : n \in {"bob"}} \cup
    {<<n, "spam">> : n \in {"", "bob"}} \cup
    {<<"", k>> : k \in VALID_ACL}

NameOf(f) == f[1]
TypeOf(f) == f[2]

\* Contents of a json document: the one written last and the one before it.
Docs == {"old", "new"}
NoFile == "nofile"
\* A key that is not in settings[_type]
NoEntry == [json |-> NoFile, md5 |-> NoFile]

\* hashlib.md5(data.encode()).hexdigest(): equal digests for equal contents.
Md5(doc) == CASE doc = "old" -> "0c4f" [] doc = "new" -> "9e1a"

VARIABLES
    json,       \* disk: <fname>.json, the local documents (NoFile: absent)
    md5file,    \* disk: <fname>.md5, the stored fingerprints (NoFile: absent)
    settings,   \* main: settings[_type], entries popped as they are handled
    cksum,      \* main: cksum[_type], entries popped as they are handled
    pc,         \* "idle" | "running" | "done" | "crashed"
    exc,        \* the exception that ended the run, "" when none
    calls,      \* remote requests issued in this run: <<file, verb, ...>>
    applied,    \* result of add/update in this run: "none" | "ok" | "failed"
    removed,    \* result of remove in this run: "none" | "ok" | "failed" | "declined"
    start       \* the fingerprints as they were loaded when the run started

incVars == <<json, md5file, settings, cksum, pc, exc, calls, applied, removed, start>>

VARIABLES
    conf,         \* the domain's `accounts` configuration, in file order
    boxes,        \* provider: mailboxes of the domain, by provider key
    rsalias,      \* provider: aliases of the domain, by provider key
    rsacl,        \* provider: account keys whose blocklist equals the configured one
    fpc,          \* position of sync.py inside process_domain: "idle", the
                  \* call or loop under way, "done"
    fexc,         \* the exception that ended the full run, "" when none
    cfg_accounts, \* init_accounts: desired accounts, <<key, Account>> in dict order
    cfg_aliases,  \* init_accounts: desired aliases, <<key, Alias>> in dict order
    rs_accounts,  \* Accounts.get(): observed accounts by key
    rs_aliases,   \* Aliases.get(): observed aliases by key
    todo,         \* keys the current for-loop has still to visit
    wire,         \* requests other than GET sent in this run, in order
    acts,         \* add/update/replace/remove methods entered in this run
    clean,        \* no response of this run failed and no delete was declined
    prev,         \* the run before this one: how it ended ("none" | "clean" |
                  \* "other") and whether it sent a request
    stored        \* sync directory: documents written by store()

fullVars == <<conf, boxes, rsalias, rsacl, fpc, fexc, cfg_accounts, cfg_aliases,
              rs_accounts, rs_aliases, todo, wire, acts, clean, prev, stored>>

VARIABLES
    kind,       \* the entity class whose diff is applied
    self,       \* the object diff is called on
    other,      \* the object it is compared with
    out,        \* what diff returned
    called      \* diff has been called

diffVars == <<kind, self, other, out, called>>

\* One object of the rackspace package and the methods called on it
VARIABLES
    ent,        \* the object: its class and attributes ("none": not constructed)
    eop,        \* the last call: its name and arguments
    eerr,       \* the exception the last call raised, "" when it returned
    esent,      \* the requests the last call sent, in order
    ewas        \* the object as it was before the last call

objVars == <<ent, eop, eerr, esent, ewas>>

vars == <<incVars, fullVars, diffVars, objVars>>

\* No object constructed.
ObjIdle ==
    /\ ent = [class |-> "none"] /\ eop = [name |-> "none"] /\ eerr = ""
    /\ esent = <<>> /\ ewas = [class |-> "none"]

\* The full driver before it is started: nothing configured, nothing remote.
FullIdle ==
    /\ conf = <<>> /\ boxes = <<>> /\ rsalias = <<>> /\ rsacl = {}
    /\ fpc = "idle" /\ fexc = ""
    /\ cfg_accounts = <<>> /\ cfg_aliases = <<>>
    /\ rs_accounts = <<>> /\ rs_aliases = <<>>
    /\ todo = <<>> /\ wire = <<>> /\ acts = {}
    /\ clean = TRUE /\ prev = [end |-> "none", sent |-> FALSE] /\ stored = {}

\* No diff under way.
DiffIdle ==
    /\ kind = "none" /\ self = <<>> /\ other = <<>> /\ out = <<>>
    /\ called = FALSE

\* The incremental driver before it is started.
IncIdle ==
    /\ json = [f \in {} |-> ""] /\ md5file = [f \in {} |-> ""]
    /\ settings = <<>> /\ cksum = <<>> /\ start = <<>>
    /\ pc = "idle" /\ exc = "" /\ calls = {}
    /\ applied = <<>> /\ removed = <<>>

\* ------------------------------------------------------ sync-inc.py: steps
IsAccountCtx(f) == NameOf(f) # ""

\* save_md5(fname, md5, debug=False): writes <fname>.md5
save_md5(files, f, md5) == [files EXCEPT ![f] = md5]

\* os.unlink(f'{fname}.md5')
unlink(files, f) == [files EXCEPT ![f] = NoFile]

\* main, lines 218-243: read every json and md5 file of the sync directory.
main_load ==
    /\ pc \in {"idle", "done", "crashed"}
    /\ pc' = "running"
    /\ exc' = ""
    /\ settings' = [f \in Files |->
                      IF json[f] = NoFile THEN NoEntry
                      ELSE [json |-> json[f], md5 |-> Md5(json[f])]]
    /\ cksum' = md5file
    /\ start' = md5file
    /\ calls' = {}
    /\ applied' = [f \in Files |-> "none"]
    /\ removed' = [f \in Files |-> "none"]
    /\ UNCHANGED <<json, md5file>>
    /\ UNCHANGED <<fullVars, diffVars, objVars>>

\* The types whose loop (lines 245-264) still has an entry to handle.
HasWork(t) ==
    \/ \E f \in Files : TypeOf(f) = t /\ settings[f] # NoEntry
    \/ t \in REMOVE /\ \E f \in Files : TypeOf(f) = t /\ cksum[f] # NoFile

\* for _type in KEYS: the first type in KEYS order with work left.
CurIdx == CHOOSE i \in 1..Len(KEYS) :
             /\ HasWork(KEYS[i])
             /\ \A j \in 1..(i-1) : ~HasWork(KEYS[j])

AnyWork == \E i \in 1..Len(KEYS) : HasWork(KEYS[i])

\* for fpath in keys (lines 249-250): fpath is a pending document of the type.
InSyncLoop(f) ==
    /\ pc = "running"
    /\ AnyWork
    /\ TypeOf(f) = KEYS[CurIdx]
    /\ settings[f] # NoEntry

\* line 252
Changed(f) == cksum[f] = NoFile \/ settings[f].md5 # cksum[f]

\* lines 255-257
Pop(f) ==
    /\ settings' = [settings EXCEPT ![f] = NoEntry]
    /\ cksum' = [cksum EXCEPT ![f] = NoFile]

Crash(e) ==
    /\ pc' = "crashed"
    /\ exc' = e
    /\ UNCHANGED <<settings, cksum>>

\* line 252 false: the document is popped without a call to sync.
main_skip(f) ==
    /\ InSyncLoop(f)
    /\ ~Changed(f)
    /\ Pop(f)
    /\ UNCHANGED <<json, md5file, pc, exc, calls, applied, removed, start>>
    /\ UNCHANGED <<fullVars, diffVars, objVars>>

\* ------------------------------------------------- rackspace: responses
\* Api._success, api.py:501: the status that counts as success.
StatusOK == 200
\* The statuses the provider answers with: success, not found.
Statuses == {StatusOK, 404}

\* Api._success(response, status_code=200) (api.py:500-521): its parameters,
\* and its result as a Python value.
Api_success_params == {"response", "status_code"}
Api_success(status) == IF status = StatusOK THEN "True" ELSE "False"

\* Account.success (account.py:180-183) passes output=False to Api._success:
\* a keyword it does not take raises TypeError.
Account_success(status) ==
    IF "output" \in Api_success_params THEN Api_success(status) ELSE "TypeError"

\* Alias.success (alias.py:68-80): the same call inside try/except: False.
Alias_success(status) ==
    IF Account_success(status) \in {"True", "False"}
    THEN Account_success(status) ELSE "False"

\* Settings.get / ACL.get (spam.py:582-616, 799-833): None unless success.
Spam_get(status) == IF Api_success(status) = "True" THEN "object" ELSE "None"

\* Settings.set (spam.py:646-657) calls itself without end.
Settings_set == "RecursionError"

\* ACL.set() (spam.py:872-877) calls update(data) without its argument.
ACL_set == "TypeError"

\* Without the test of the context.
Settings_validate_override_off(override, isAccount) == "True"

\* Settings._validate_override (spam.py:441-464) as called by update: the
\* driver hands the diff list over as `override`, and a non-empty list is true.
Settings_validate_override(override, isAccount) ==
    IF override /\ isAccount THEN "Exception" ELSE "True"

\* The result of a request that was sent, as add/update/remove return it.
Result(status) == IF Api_success(status) = "True" THEN "ok" ELSE "failed"

\* Account.canRecover (account.py:185-195): isRecoverable of the fault in
\* the body of the response; a response of success has no fault.
Account_canRecover(status, isRecoverable) == status # StatusOK /\ isRecoverable

\* sync(fname, data) for an Account (sync-inc.py:101-155): get, then
\* `online_object.success` raises out of hasattr (line 126). The GET is
\* kept with its answer, <<file, "GET", status, canRecover>>, and the POST
\* of add(recover=True) as <<file, "POST", "recoverDeleted">>.
sync_Account(f) ==
    /\ InSyncLoop(f)
    /\ Changed(f)
    /\ TypeOf(f) = "account"
    /\ \E get \in Statuses, isRecoverable \in BOOLEAN :
          LET success == Account_success(get)
              canRecover == Account_canRecover(get, isRecoverable)
              asked == <<f, "GET", get, canRecover>>
          IN
          CASE success = "TypeError" ->
                  /\ calls' = calls \cup {asked}
                  /\ Crash("TypeError")
                  /\ UNCHANGED <<md5file, applied>>
            [] success = "False" ->
                  \* new: local_object.add(recover=online_object.canRecover)
                  /\ calls' = calls \cup {asked} \cup
                                (IF canRecover THEN {<<f, "POST", "recoverDeleted">>}
                                 ELSE {<<f, "POST">>})
                  /\ \E post \in Statuses :
                        applied' = [applied EXCEPT ![f] = Result(post)]
                  /\ md5file' = save_md5(md5file, f, settings[f].md5)
                  /\ Pop(f)
                  /\ UNCHANGED <<pc, exc>>
            [] success = "True" ->
                  \* diff, update when the diff is not empty
                  /\ \E upd \in {"none"} \cup {Result(put) : put \in Statuses} :
                        /\ applied' = [applied EXCEPT ![f] = upd]
                        /\ calls' = calls \cup {asked} \cup
                                      (IF upd # "none" THEN {<<f, "PUT">>} ELSE {})
                  /\ md5file' = save_md5(md5file, f, settings[f].md5)
                  /\ Pop(f)
                  /\ UNCHANGED <<pc, exc>>
    /\ UNCHANGED <<json, removed, start>>
    /\ UNCHANGED <<fullVars, diffVars, objVars>>

\* sync(fname, data) for an Alias: get; when success is False add is called,
\* else diff and update; the result is dropped and the md5 saved.  The GET
\* is kept with its answer, <<file, "GET", status>>.
sync_Alias(f) ==
    /\ InSyncLoop(f)
    /\ Changed(f)
    /\ TypeOf(f) = "alias"
    /\ \E get \in Statuses :
          LET success == Alias_success(get) IN
          IF success = "False"
          THEN /\ calls' = calls \cup {<<f, "GET", get>>, <<f, "POST">>}
               /\ \E post \in Statuses :
                     applied' = [applied EXCEPT ![f] = Result(post)]
          ELSE \* diff, update when diff['changes'] > 0
               /\ \E upd \in {"none"} \cup {Result(send) : send \in Statuses} :
                     /\ applied' = [applied EXCEPT ![f] = upd]
                     /\ calls' = calls \cup {<<f, "GET", get>>} \cup
                                   (IF upd # "none" THEN {<<f, "UPDATE">>} ELSE {})
    /\ md5file' = save_md5(md5file, f, settings[f].md5)
    /\ Pop(f)
    /\ UNCHANGED <<json, pc, exc, removed, start>>
    /\ UNCHANGED <<fullVars, diffVars, objVars>>

\* sync(fname, data) for spam.Settings.  A failed get gives None and
\* Settings.set(); else diff is a list of changed fields, handed to
\* update as `override`.  The PUT is kept with the overrideUserSettings
\* of its payload when that is true.
sync_Settings(f) ==
    /\ InSyncLoop(f)
    /\ Changed(f)
    /\ TypeOf(f) = "spam"
    /\ \E get \in Statuses, differs \in BOOLEAN :
          CASE Spam_get(get) = "None" ->
                  /\ calls' = calls \cup {<<f, "GET">>}
                  /\ Crash(Settings_set)
                  /\ UNCHANGED <<md5file, applied>>
            [] Spam_get(get) # "None" /\ ~differs ->
                  /\ calls' = calls \cup {<<f, "GET">>}
                  /\ md5file' = save_md5(md5file, f, settings[f].md5)
                  /\ Pop(f)
                  /\ UNCHANGED <<pc, exc, applied>>
            [] Spam_get(get) # "None" /\ differs
                 /\ Settings_validate_override(differs, IsAccountCtx(f)) # "True" ->
                  /\ calls' = calls \cup {<<f, "GET">>}
                  /\ Crash(Settings_validate_override(differs, IsAccountCtx(f)))
                  /\ UNCHANGED <<md5file, applied>>
            [] Spam_get(get) # "None" /\ differs
                 /\ Settings_validate_override(differs, IsAccountCtx(f)) = "True" ->
                  \* `if override:` (spam.py:702-703) of the list handed over
                  /\ calls' = calls \cup {<<f, "GET">>} \cup
                                (IF differs
                                 THEN {<<f, "PUT", "overrideUserSettings">>}
                                 ELSE {<<f, "PUT">>})
                  /\ \E put \in Statuses :
                        applied' = [applied EXCEPT ![f] = Result(put)]
                  /\ md5file' = save_md5(md5file, f, settings[f].md5)
                  /\ Pop(f)
                  /\ UNCHANGED <<pc, exc>>
    /\ UNCHANGED <<json, removed, start>>
    /\ UNCHANGED <<fullVars, diffVars, objVars>>

\* sync(fname, data) for spam.ACL.  A failed get gives None and ACL.set();
\* else diff is None (equal) or a map, handed to update.
sync_ACL(f) ==
    /\ InSyncLoop(f)
    /\ Changed(f)
    /\ TypeOf(f) \in VALID_ACL
    /\ \E get \in Statuses, differs \in BOOLEAN :
          CASE Spam_get(get) = "None" ->
                  /\ calls' = calls \cup {<<f, "GET">>}
                  /\ Crash(ACL_set)
                  /\ UNCHANGED <<md5file, applied>>
            [] Spam_get(get) # "None" /\ ~differs ->
                  /\ calls' = calls \cup {<<f, "GET">>}
                  /\ md5file' = save_md5(md5file, f, settings[f].md5)
                  /\ Pop(f)
                  /\ UNCHANGED <<pc, exc, applied>>
            [] Spam_get(get) # "None" /\ differs ->
                  /\ calls' = calls \cup {<<f, "GET">>, <<f, "PUT">>}
                  /\ \E put \in Statuses :
                        applied' = [applied EXCEPT ![f] = Result(put)]
                  /\ md5file' = save_md5(md5file, f, settings[f].md5)
                  /\ Pop(f)
                  /\ UNCHANGED <<pc, exc>>
    /\ UNCHANGED <<json, removed, start>>
    /\ UNCHANGED <<fullVars, diffVars, objVars>>

\* getattr(online_obj, 'remove', None) is not None
HasRemove(t) == t \in {"account", "alias"}

\* lines 259-264 and remove(fname): the documents of the type are handled,
\* the type is in REMOVE and fpath is a fingerprint left without a document.
remove(f) ==
    /\ pc = "running"
    /\ AnyWork
    /\ TypeOf(f) = KEYS[CurIdx]
    /\ \A g \in Files : TypeOf(g) = TypeOf(f) => settings[g] = NoEntry
    /\ TypeOf(f) \in REMOVE
    /\ cksum[f] # NoFile
    /\ \E answer \in {"yes", "no"} \cup {Result(del) : del \in Statuses} :
          IF ~HasRemove(TypeOf(f))
          THEN /\ answer = "no"
               /\ calls' = calls \cup {<<f, "GET">>}
               /\ UNCHANGED <<md5file, removed>>
          ELSE IF TypeOf(f) = "account" /\ answer = "no"
          THEN \* Account.remove (account.py:427-428): any answer but y/yes
               \* returns True without a request
               /\ calls' = calls \cup {<<f, "GET">>}
               /\ removed' = [removed EXCEPT ![f] = "declined"]
               /\ md5file' = unlink(md5file, f)
          ELSE /\ answer \in {"ok", "failed"}
               /\ calls' = calls \cup {<<f, "GET">>, <<f, "DELETE">>}
               /\ removed' = [removed EXCEPT ![f] = answer]
               /\ md5file' = unlink(md5file, f)
    /\ cksum' = [cksum EXCEPT ![f] = NoFile]
    /\ UNCHANGED <<json, settings, pc, exc, applied, start>>
    /\ UNCHANGED <<fullVars, diffVars, objVars>>

\* main returns: every type has been handled.
main_done ==
    /\ pc = "running"
    /\ ~AnyWork
    /\ pc' = "done"
    /\ UNCHANGED <<json, md5file, settings, cksum, exc, calls, applied, removed, start>>
    /\ UNCHANGED <<fullVars, diffVars, objVars>>

IncInit ==
    /\ \E S \in {T \in SUBSET Files : Cardinality(T) <= MaxEnt} :
         \E j \in [S -> {NoFile, "new"}], m \in [S -> {NoFile} \cup {Md5(d) : d \in Docs}] :
            \* a fingerprint left without a document is that of an older one
            /\ \A f \in S : j[f] # NoFile \/ m[f] = Md5("old")
            /\ json = [f \in Files |-> IF f \in S THEN j[f] ELSE NoFile]
            /\ md5file = [f \in Files |-> IF f \in S THEN m[f] ELSE NoFile]
    /\ settings = [f \in Files |-> NoEntry]
    /\ cksum = [f \in Files |-> NoFile]
    /\ start = [f \in Files |-> NoFile]
    /\ pc = "idle"
    /\ exc = ""
    /\ calls = {}
    /\ applied = [f \in Files |-> "none"]
    /\ removed = [f \in Files |-> "none"]
    /\ FullIdle
    /\ DiffIdle
    /\ ObjIdle

IncNext ==
    \/ main_load
    \/ \E f \in Files : main_skip(f)
    \/ \E f \in Files : sync_Account(f)
    \/ \E f \in Files : sync_Alias(f)
    \/ \E f \in Files : sync_Settings(f)
    \/ \E f \in Files : sync_ACL(f)
    \/ \E f \in Files : remove(f)
    \/ main_done

SpecInc == IncInit /\ [][IncNext]_vars

\* ------------------------------------------------ incremental sync: claims
CallsFor(f) == {c \in calls : c[1] = f}
RunEnded == pc \in {"done", "crashed"}
ChangedAtStart(f) == start[f] = NoFile \/ start[f] # Md5(json[f])

\* C1: when the apply call (add, set or update) of a changed entity fails,
\* the stored fingerprint is left as it was when the run started.
C1_FailedApplyKeepsFingerprint ==
    \A f \in Files : applied[f] = "failed" => md5file[f] = start[f]

\* The fingerprint is saved only by a sync of a changed document.
SavedOnlyWhenChanged ==
    \A f \in Files :
        (pc # "idle" /\ md5file[f] # start[f] /\ md5file[f] # NoFile)
            => (json[f] # NoFile /\ ChangedAtStart(f) /\ md5file[f] = Md5(json[f]))

\* C2: at the end of a run, a local document has had a remote call issued
\* for it if and only if it had no stored fingerprint or a different one.
C2_ReconciledIffChanged ==
    RunEnded =>
        \A f \in Files :
            json[f] # NoFile => ((CallsFor(f) # {}) <=> ChangedAtStart(f))

\* The half of C2 that no exception disturbs: a document whose stored
\* fingerprint is identical gets no remote call in the run.
UnchangedIssuesNoCall ==
    \A f \in Files :
        (pc # "idle" /\ json[f] # NoFile /\ ~ChangedAtStart(f)) => CallsFor(f) = {}

\* C3: a fingerprint whose document is absent stays on disk when the delete
\* failed or was not carried out.
C3_FingerprintStaysUnlessDeleted ==
    \A f \in Files : removed[f] \in {"failed", "declined"} => md5file[f] # NoFile

\* C4: for the spam-settings and ACL kinds no DELETE is ever issued, remove
\* is never entered, a stored fingerprint is never removed, and a
\* disappeared document causes no remote call at all.
C4_NoDeleteForSpamKinds ==
    \A f \in Files :
        TypeOf(f) \notin {"account", "alias"} =>
            /\ <<f, "DELETE">> \notin calls
            /\ removed[f] = "none"
            /\ (pc # "idle" /\ start[f] # NoFile) => md5file[f] # NoFile
            /\ json[f] = NoFile => CallsFor(f) = {}

\* A run that ended normally, in which an account or alias fingerprint was
\* removed and a spam or ACL fingerprint without document was passed over.
C4_Witness ==
    /\ pc = "done"
    /\ \E g \in Files : removed[g] # "none"
    /\ \E f \in Files :
          /\ TypeOf(f) \notin {"account", "alias"}
          /\ json[f] = NoFile
          /\ start[f] # NoFile

\* ------------------------------------------------------- rackspace: names
Domain == "x.com"

\* The names left as they are written.
Lower_asis(s) == s

\* str.lower() on the names in use.
Lower(s) ==
    CASE s = "Amy" -> "amy"
      [] s = "Sales" -> "sales"
      [] s = "Amy@x.com" -> "amy@x.com"
      [] OTHER -> s

\* f'{acct_name}@{domain}' (sync.py:169)
Email(n) == n \o "@" \o Domain

\* name.split('@')[0] (alias.py:56) and _alias.replace(f'@{domain}', '')
\* (sync.py:178) on the names and addresses in use.
LocalPart(s) ==
    CASE s = "Amy@x.com" -> "Amy"
      [] s = "amy@x.com" -> "amy"
      [] s = "bob@x.com" -> "bob"
      [] s = "old@x.com" -> "old"
      [] s = "info@x.com" -> "info"
      [] OTHER -> s

Range(seq) == {seq[i] : i \in 1..Len(seq)}

\* dict.keys() of a list of <<key, value>> pairs
Keys(m) == {m[i][1] : i \in 1..Len(m)}
KeySeq(m) == [i \in 1..Len(m) |-> m[i][1]]
\* m[key]
At(m, key) == m[CHOOSE i \in 1..Len(m) : m[i][1] = key][2]
\* m[key] = value: a known key keeps its place, a new one goes last
Put(m, key, value) ==
    IF key \in Keys(m)
    THEN [i \in 1..Len(m) |-> IF m[i][1] = key THEN <<key, value>> ELSE m[i]]
    ELSE Append(m, <<key, value>>)

\* ----------------------------------------------------- rackspace: Account
\* Account.__FIELDS (account.py:59-108), the fields the model keeps.
FIELDS == [firstName |-> "str", lastName |-> "str", displayName |-> "str",
           enabled |-> "bool", size |-> "int", password |-> "str",
           recoverDeleted |-> "bool", currentUsage |-> "int",
           createdDate |-> "str", lastLogin |-> "str", name |-> "str"]

\* Account.__DEFAULTS (account.py:54-57)
DEFAULTS == [enabled |-> TRUE, size |-> 25600]

\* Account.__READONLY (account.py:110-115)
READONLY == {"currentUsage", "createdDate", "lastLogin", "name"}

\* `ignore` of Account.diff (account.py:294)
DIFF_IGNORE == {"password", "recoverDeleted", "name", "spam"}
\* `ignore` of Account.load (account.py:230)
LOAD_IGNORE == {"aliases", "spam"}

\* the default of a field's type (account.py:300-310, 374-381)
TypeDefault(t) == CASE t = "str" -> "" [] t = "int" -> 0 [] t = "bool" -> FALSE

\* getattr(obj, field, default)
Getattr(obj, field, default) == IF field \in DOMAIN obj THEN obj[field] ELSE default

\* ' '.join((fname, lname)).strip() (account.py:264)
JoinStrip(fname, lname) ==
    IF lname = "" THEN fname
    ELSE IF fname = "" THEN lname
    ELSE fname \o " " \o lname

\* account.py:256-257: a single space read back from the provider is ''.
LoadValue(key, val) == IF FIELDS[key] = "str" /\ val = " " THEN "" ELSE val

\* Account.load (account.py:197-268) of a flat dict: known fields are set,
\* then displayName is made up from the names when it is empty.
Account_load(obj, data) ==
    LET keys == {k \in DOMAIN data : k \notin LOAD_IGNORE /\ k \in DOMAIN FIELDS}
        set == [k \in DOMAIN obj \cup keys |->
                    IF k \in keys THEN LoadValue(k, data[k]) ELSE obj[k]]
        fname == Getattr(set, "firstName", "")
        lname == Getattr(set, "lastName", "")
    IN  IF Getattr(set, "displayName", "") = "" /\ (fname # "" \/ lname # "")
        THEN [k \in DOMAIN set \cup {"displayName"} |->
                 IF k = "displayName" THEN JoinStrip(fname, lname) ELSE set[k]]
        ELSE set

\* Account.__init__ (account.py:120-160): defaults first, data when given.
Account_init(name, data) ==
    LET obj == [k \in {"name"} \cup DOMAIN DEFAULTS |->
                   IF k = "name" THEN name ELSE DEFAULTS[k]]
    IN  IF DOMAIN data # {} THEN Account_load(obj, data) ELSE obj

\* Comparing the read-only and ignored fields as well.
DiffFields_all == DOMAIN FIELDS

\* The fields Account.diff compares.
DiffFields == {f \in DOMAIN FIELDS : f \notin READONLY /\ f \notin DIFF_IGNORE}

\* A diff that reports the values of the other account.
Account_diff_theirs(new, old) ==
    LET differ == {f \in DiffFields :
                      Getattr(new, f, TypeDefault(FIELDS[f]))
                        # Getattr(old, f, TypeDefault(FIELDS[f]))}
    IN  [f \in differ |-> Getattr(old, f, TypeDefault(FIELDS[f]))]

\* Account.diff (account.py:270-316)
Account_diff(new, old) ==
    LET differ == {f \in DiffFields :
                      Getattr(new, f, TypeDefault(FIELDS[f]))
                        # Getattr(old, f, TypeDefault(FIELDS[f]))}
    IN  [f \in differ |-> Getattr(new, f, TypeDefault(FIELDS[f]))]

\* Account.add (account.py:367-383): the data posted when none is given
Account_add_data(obj) ==
    [f \in DOMAIN FIELDS \ READONLY |-> Getattr(obj, f, TypeDefault(FIELDS[f]))]

\* ------------------------------------------------------- rackspace: Alias
\* Alias(name, address=email) (alias.py:56-66, 133-141)
Alias_init(name, address) == [name |-> LocalPart(name), data |-> <<address>>]

\* Alias.add_address (alias.py:163-175)
Alias_add_address(alias, address) ==
    IF address \in Range(alias.data) THEN alias
    ELSE [alias EXCEPT !.data = Append(@, address)]

\* The test of alias.py:202 without its second half.
DiffTakes_nodedup(address, dst, found) == address \notin Range(dst)

\* alias.py:202: the address is not in dst.data and not yet in diff[key]
DiffTakes(address, dst, found) ==
    address \notin Range(dst) /\ address \notin Range(found)

\* alias.py:200-204, one pass `for address in src.data`: acc is
\* <<diff[key], diff['changes']>>
RECURSIVE DiffPass(_, _, _)
DiffPass(src, dst, acc) ==
    IF src = <<>> THEN acc
    ELSE IF DiffTakes(Head(src), dst, acc[1])
         THEN DiffPass(Tail(src), dst, <<Append(acc[1], Head(src)), acc[2] + 1>>)
         ELSE DiffPass(Tail(src), dst, acc)

\* Alias.diff (alias.py:177-206) on the address lists
Alias_diff(new, old) ==
    LET add == DiffPass(new, old, <<(<<>>), 0>>)
        del == DiffPass(old, new, <<(<<>>), add[2]>>)
    IN  [add |-> add[1], del |-> del[1], old |-> old, new |-> new,
         changes |-> del[2]]

\* A request: `data` is a dict of fields, or <<>> for none; the comma-joined
\* aliasEmails string is kept as the list it joins.
Request(verb, path, data) == [verb |-> verb, path |-> path, data |-> data]

\* self.api._alias_path(self.name) / _account_path(self.name), below the domain
AliasPath(name) == <<"aliases", name>>
AccountPath(name) == <<"mailboxes", name>>

\* Alias.add (alias.py:233-257)
Alias_add(alias) ==
    Request("POST", AliasPath(alias.name), [aliasEmails |-> alias.data])

\* Alias.replace (alias.py:259-285)
Alias_replace(alias) ==
    Request("PUT", AliasPath(alias.name), [aliasEmails |-> alias.data])

\* Alias.remove (alias.py:288-310)
Alias_remove(alias) == Request("DELETE", AliasPath(alias.name), <<>>)

\* Alias.update (alias.py:312-361) for a diff with changes > 0
Alias_update(alias, data) ==
    IF data.changes > 1
    THEN Request("PUT", AliasPath(alias.name), [aliasEmails |-> data.new])
    ELSE IF data.add # <<>>
    THEN Request("POST", Append(AliasPath(alias.name), data.add[1]), <<>>)
    ELSE Request("DELETE", Append(AliasPath(alias.name), data.del[1]), <<>>)

\* What process_aliases calls for an alias that differs (sync.py:281-283)
process_aliases_change(alias, data) == Alias_replace(alias)

\* Account.add / update / remove (account.py:344-403, 461-497, 405-431)
Account_add(obj) == Request("POST", AccountPath(obj.name), Account_add_data(obj))
Account_update(obj, data) == Request("PUT", AccountPath(obj.name), data)
Account_remove(obj) == Request("DELETE", AccountPath(obj.name), <<>>)

\* ------------------------------------------------------------ the provider
\* The provider resolves a mailbox or alias name without regard to letter
\* case, and a mailbox given as an address by its local part.
ProviderKey(segment) == Lower(LocalPart(segment))

SetKey(f, k, v) == [x \in DOMAIN f \cup {k} |-> IF x = k THEN v ELSE f[x]]
DelKey(f, k) == [x \in DOMAIN f \ {k} |-> f[x]]

\* The mailboxes after a request that succeeded: POST creates a mailbox
\* that does not exist from the data, PUT sets the fields given, DELETE
\* removes it.
Provider_boxes(bx, req) ==
    LET key == ProviderKey(req.path[2]) IN
    IF req.path[1] # "mailboxes" \/ Len(req.path) # 2 THEN bx
    ELSE CASE req.verb = "POST" /\ key \notin DOMAIN bx ->
                SetKey(bx, key, [k \in DOMAIN req.data \cup {"name"} |->
                                   IF k = "name" THEN LocalPart(req.path[2])
                                   ELSE req.data[k]])
           [] req.verb = "PUT" /\ key \in DOMAIN bx ->
                SetKey(bx, key, [k \in DOMAIN bx[key] \cup DOMAIN req.data |->
                                   IF k \in DOMAIN req.data THEN req.data[k]
                                   ELSE bx[key][k]])
           [] req.verb = "DELETE" -> DelKey(bx, key)
           [] OTHER -> bx

\* The aliases after a request that succeeded: POST creates an alias that
\* does not exist with the addresses of aliasEmails, PUT replaces its
\* addresses, DELETE removes it.
Provider_aliases(al, req) ==
    LET key == ProviderKey(req.path[2]) IN
    IF req.path[1] # "aliases" \/ Len(req.path) # 2 THEN al
    ELSE CASE req.verb = "POST" /\ key \notin DOMAIN al ->
                SetKey(al, key, [name |-> req.path[2], data |-> req.data.aliasEmails])
           [] req.verb = "PUT" /\ key \in DOMAIN al ->
                SetKey(al, key, [name |-> al[key].name, data |-> req.data.aliasEmails])
           [] req.verb = "DELETE" -> DelKey(al, key)
           [] OTHER -> al

\* A request as it went over the wire, with the status it was answered with.
Sent(req, status) ==
    [verb |-> req.verb, path |-> req.path, data |-> req.data, status |-> status]

\* ------------------------------------------- rackspace: values with types
\* A value together with the Python type it has, <<type, value>>.
Unset == <<"NoneType", "None">>

\* isinstance(value, self.__type): a bool is an int as well
isinstance(val, type) == val[1] = type \/ (val[1] = "bool" /\ type = "int")

\* int(val) of a str (account.py:247): the strings that are numerals
Numerals == ("12" :> 12) @@ ("1024" :> 1024)

\* Account.load (account.py:197-268) of a dict given as its items in order,
\* each value with its type: the exception raised ("" for none) and the
\* fields as the call leaves them. A contactInfo dict is loaded by the
\* call on itself; every call ends with the displayName made up from the
\* names.
RECURSIVE Account_load_items(_, _)
Account_load_items(obj, data) ==
    IF data = <<>> THEN [raised |-> "", obj |-> Account_load(obj, <<>>)]
    ELSE
    LET key == Head(data)[1]
        val == Head(data)[2]
    IN  IF key \in LOAD_IGNORE THEN Account_load_items(obj, Tail(data))
        ELSE IF key = "contactInfo"
        THEN LET sub == Account_load_items(obj, val[2])
             IN  IF sub.raised # "" THEN sub
                 ELSE Account_load_items(sub.obj, Tail(data))
        ELSE IF key \notin DOMAIN FIELDS THEN Account_load_items(obj, Tail(data))
        ELSE
        LET ftype == FIELDS[key]
            given == IF val = Unset /\ ftype = "str" THEN <<"str", "">> ELSE val
        IN  IF ~isinstance(given, ftype) /\ ftype # "int"
            THEN [raised |-> "TypeError", obj |-> obj]
            ELSE IF ~isinstance(given, ftype) /\ given[1] # "str"
            THEN [raised |-> "TypeError", obj |-> obj]
            ELSE IF ~isinstance(given, ftype) /\ given[2] \notin DOMAIN Numerals
            THEN [raised |-> "ValueError", obj |-> obj]
            ELSE
            LET tmp_val == IF ftype # "int" THEN given[2]
                           ELSE IF given[1] = "str" THEN Numerals[given[2]]
                           ELSE IF given[1] = "bool" THEN (IF given[2] THEN 1 ELSE 0)
                           ELSE given[2]
            IN  Account_load_items(SetKey(obj, key, LoadValue(key, tmp_val)), Tail(data))

\* --------------------------------------------------- sync.py: init_accounts
\* data[acct_name] of the configuration
ConfigData(a) ==
    IF a.spam
    THEN [firstName |-> a.firstName, password |-> "secret", aliases |-> a.aliases,
          spam |-> [blocklist |-> <<"spammer@example.com">>]]
    ELSE [firstName |-> a.firstName, password |-> "secret", aliases |-> a.aliases]

\* sync.py:177-184, the aliases declared under one account
RECURSIVE init_aliases(_, _, _)
init_aliases(names, email, aliases) ==
    IF names = <<>> THEN aliases
    ELSE LET alias == LocalPart(Head(names))
             alias_lc == Lower(alias)
         IN  init_aliases(Tail(names), email,
                IF alias \notin Keys(aliases)
                THEN Put(aliases, alias_lc, Alias_init(alias, email))
                ELSE Put(aliases, alias_lc,
                         Alias_add_address(At(aliases, alias_lc), email)))

\* init_accounts (sync.py:148-186): <<accounts, aliases>>
RECURSIVE init_accounts(_, _, _)
init_accounts(data, accounts, aliases) ==
    IF data = <<>> THEN <<accounts, aliases>>
    ELSE LET a == Head(data)
             email == Email(a.name)
             account == [obj |-> Account_init(email, ConfigData(a)),
                         spam |-> "spam" \in DOMAIN ConfigData(a)]
         IN  init_accounts(Tail(data),
                           Put(accounts, Lower(a.name), account),
                           init_aliases(a.aliases, email, aliases))

\* Account(email, data=data[acct_name]) of sync.py:172 raising: the first
\* account in dict order whose data has a value that Account.load refuses
\* (account.py:245-251) ends init_accounts with that exception, "" for none.
\* `enabled` is kept as the YAML gives it, the value with its type.
RECURSIVE init_accounts_raised(_)
init_accounts_raised(data) ==
    IF data = <<>> THEN ""
    ELSE IF "enabled" \in DOMAIN Head(data)
            /\ Account_load_items(<<>>, << <<"enabled", Head(data).enabled>> >>).raised # ""
    THEN Account_load_items(<<>>, << <<"enabled", Head(data).enabled>> >>).raised
    ELSE init_accounts_raised(Tail(data))

\* ------------------------------------------------------- sync.py: the run
OK(status) == Api_success(status) = "True"

\* The order in which the provider lists names.
ListOrder == <<"Amy", "amy", "bob", "old", "Sales", "sales", "info">>
Listed(keys) == LET In(k) == k \in keys IN SelectSeq(ListOrder, In)

\* An exception leaves process_domain where it stands.
FCrash(e) == fexc' = e /\ fpc' = fpc /\ todo' = todo

\* The run is over: process_domain returned or raised.
Ended == fpc = "done" \/ fexc # ""

\* Entering the first for-loop over `first` that has a key to visit, else
\* the second one, else what follows the two loops.
Enter(p1, first, p2, second, after) ==
    IF first # <<>> THEN fpc' = p1 /\ todo' = first
    ELSE IF second # <<>> THEN fpc' = p2 /\ todo' = second
    ELSE fpc' = after /\ todo' = <<>>

\* process_domain (sync.py:350-377) up to the first request: init_accounts,
\* which nothing catches an exception of.
\* The program is run again after a run that returned; a run that raised is
\* left as it ended.
process_domain ==
    /\ fpc \in {"idle", "done"}
    /\ LET desired == init_accounts(conf, <<>>, <<>>)
           raised == init_accounts_raised(conf)
       IN  IF raised # ""
           THEN /\ fpc' = "init_accounts" /\ fexc' = raised
                /\ UNCHANGED <<cfg_accounts, cfg_aliases>>
           ELSE /\ fpc' = "Accounts.get" /\ fexc' = ""
                /\ cfg_accounts' = desired[1]
                /\ cfg_aliases' = desired[2]
    /\ prev' = [end |-> IF fpc = "idle" THEN "none"
                         ELSE IF clean THEN "clean" ELSE "other",
                 sent |-> wire # <<>>]
    /\ todo' = <<>> /\ wire' = <<>> /\ acts' = {} /\ clean' = TRUE
    /\ rs_accounts' = <<>> /\ rs_aliases' = <<>>
    /\ UNCHANGED <<conf, boxes, rsalias, rsacl, stored>>
    /\ UNCHANGED <<incVars, diffVars, objVars>>

\* Accounts(api).get() (account.py:499-551): the list, asserted to be a 200,
\* then Account(name).get() for every mailbox listed; a get that fails
\* gives an Account without data (account.py:339-340).
Accounts_get ==
    /\ fpc = "Accounts.get" /\ fexc = ""
    /\ \E list \in Statuses :
          IF ~OK(list)
          THEN /\ FCrash("AssertionError")
               /\ clean' = FALSE
               /\ UNCHANGED rs_accounts
          ELSE \E failed \in {{}} \cup {{k} : k \in DOMAIN boxes} :
                  LET got(k) == IF k \in failed
                                THEN Account_init(boxes[k].name, <<>>)
                                ELSE Account_init(boxes[k].name, boxes[k])
                      rs == [key \in {Lower(got(k).name) : k \in DOMAIN boxes} |->
                                got(CHOOSE k \in DOMAIN boxes : Lower(got(k).name) = key)]
                  IN  /\ rs_accounts' = rs
                      /\ clean' = (clean /\ failed = {})
                      /\ fexc' = fexc
                      /\ Enter("accounts.cfg", KeySeq(cfg_accounts),
                               "accounts.rs", Listed(DOMAIN rs), "Aliases.get")
    /\ UNCHANGED <<conf, boxes, rsalias, rsacl, cfg_accounts, cfg_aliases,
                   rs_aliases, wire, acts, prev, stored>>
    /\ UNCHANGED <<incVars, diffVars, objVars>>

\* The next key of the running loop, or the loop `second` after its last one.
Advance(p2, second, after) ==
    IF Tail(todo) # <<>> THEN fpc' = fpc /\ todo' = Tail(todo)
    ELSE Enter(p2, second, p2, second, after)

\* ACL.update (spam.py:879-914) as Spam.set calls it for the blocklist of an
\* account (process_spam, sync.py:311-335)
Spam_set(name) ==
    Request("PUT", <<"mailboxes", name, "spam", "blocklist">>,
            [addList |-> <<"spammer@example.com">>])

\* process_accounts (sync.py:221-237), one pass of the first loop: add or
\* diff and update, then process_spam when the account configures spam,
\* then store_account.  Spam.get gives None for an ACL whose get failed,
\* and comparing it raises AttributeError (spam.py:203-210, 730-731).
process_accounts_cfg ==
    /\ fpc = "accounts.cfg" /\ fexc = "" /\ todo # <<>>
    /\ LET name == Head(todo)
           account == At(cfg_accounts, name)
           isNew == name \notin DOMAIN rs_accounts
           diff == IF isNew THEN <<>> ELSE Account_diff(account.obj, rs_accounts[name])
           req == IF isNew THEN Account_add(account.obj)
                  ELSE Account_update(account.obj, diff)
           sends == isNew \/ DOMAIN diff # {}
       IN  \E st, get, put \in Statuses :
             LET wire1 == IF sends THEN Append(wire, Sent(req, st)) ELSE wire
                 boxes1 == IF sends /\ OK(st) THEN Provider_boxes(boxes, req) ELSE boxes
                 key == ProviderKey(name)
                 gotSpam == Spam_get(get) # "None" /\ key \in DOMAIN boxes1
                 differs == account.spam /\ key \notin rsacl
             IN  /\ ~sends => st = StatusOK
                 /\ ~account.spam => get = StatusOK
                 /\ ~(differs /\ gotSpam) => put = StatusOK
                 /\ acts' = acts \cup
                       (IF isNew THEN {<<"account", name, "add">>}
                        ELSE IF sends THEN {<<"account", name, "update">>} ELSE {})
                 /\ boxes' = boxes1
                 /\ IF account.spam /\ ~gotSpam
                    THEN /\ wire' = wire1
                         /\ FCrash("AttributeError")
                         /\ clean' = FALSE
                         /\ UNCHANGED <<rsacl, stored>>
                    ELSE /\ wire' = IF differs THEN Append(wire1, Sent(Spam_set(name), put))
                                    ELSE wire1
                         /\ rsacl' = IF differs /\ OK(put) THEN rsacl \cup {key} ELSE rsacl
                         /\ stored' = stored \cup {<<"account", account.obj.name>>}
                         /\ clean' = (clean /\ OK(st) /\ OK(put))
                         /\ fexc' = fexc
                         /\ Advance("accounts.rs", Listed(DOMAIN rs_accounts), "Aliases.get")
    /\ UNCHANGED <<conf, rsalias, cfg_accounts, cfg_aliases, rs_accounts, rs_aliases, prev>>
    /\ UNCHANGED <<incVars, diffVars, objVars>>

\* process_accounts (sync.py:239-241), one pass of the second loop: remove
\* for a name not configured.  Account.remove (account.py:405-431) asks for
\* confirmation and returns without a request unless the answer is y or yes.
process_accounts_rs ==
    /\ fpc = "accounts.rs" /\ fexc = "" /\ todo # <<>>
    /\ LET name == Head(todo)
           account == rs_accounts[name]
           gone == name \notin Keys(cfg_accounts)
           req == Account_remove(account)
       IN  \E answer \in {"yes", "no"}, st \in Statuses :
             LET sends == gone /\ answer = "yes" IN
             /\ ~gone => answer = "yes"
             /\ ~sends => st = StatusOK
             /\ acts' = IF gone THEN acts \cup {<<"account", name, "remove">>} ELSE acts
             /\ wire' = IF sends THEN Append(wire, Sent(req, st)) ELSE wire
             /\ boxes' = IF sends /\ OK(st) THEN Provider_boxes(boxes, req) ELSE boxes
             /\ rsacl' = IF sends /\ OK(st) THEN rsacl \ {ProviderKey(account.name)}
                         ELSE rsacl
             /\ clean' = (clean /\ answer = "yes" /\ OK(st))
    /\ Advance("Aliases.get", <<>>, "Aliases.get")
    /\ UNCHANGED <<conf, rsalias, fexc, cfg_accounts, cfg_aliases, rs_accounts,
                   rs_aliases, prev, stored>>
    /\ UNCHANGED <<incVars, diffVars, objVars>>

\* Aliases(api).get() (alias.py:383-444): the list, asserted to be a 200; a
\* row with one member carries it, a row with more is fetched, and a fetch
\* that fails gives an Alias with the empty list (alias.py:228-229).
Aliases_get ==
    /\ fpc = "Aliases.get" /\ fexc = ""
    /\ LET Fetched == {k \in DOMAIN rsalias : Len(rsalias[k].data) > 1} IN
       \E list \in Statuses :
             IF ~OK(list)
             THEN /\ FCrash("AssertionError")
                  /\ clean' = FALSE
                  /\ UNCHANGED rs_aliases
             ELSE \E failed \in {{}} \cup {{k} : k \in Fetched} :
                     LET got(k) == [name |-> LocalPart(rsalias[k].name),
                                    data |-> IF k \in failed THEN <<>> ELSE rsalias[k].data]
                         rs == [key \in {Lower(got(k).name) : k \in DOMAIN rsalias} |->
                                   got(CHOOSE k \in DOMAIN rsalias : Lower(got(k).name) = key)]
                     IN  /\ rs_aliases' = rs
                         /\ clean' = (clean /\ failed = {})
                         /\ fexc' = fexc
                         /\ Enter("aliases.cfg", KeySeq(cfg_aliases),
                                  "aliases.rs", Listed(DOMAIN rs), "done")
    /\ UNCHANGED <<conf, boxes, rsalias, rsacl, cfg_accounts, cfg_aliases,
                   rs_accounts, wire, acts, prev, stored>>
    /\ UNCHANGED <<incVars, diffVars, objVars>>

\* process_aliases (sync.py:275-285), one pass of the first loop: add, or
\* diff and replace, then store_alias.
process_aliases_cfg ==
    /\ fpc = "aliases.cfg" /\ fexc = "" /\ todo # <<>>
    /\ LET name == Head(todo)
           alias == At(cfg_aliases, name)
           isNew == name \notin DOMAIN rs_aliases
           diff == Alias_diff(alias.data, rs_aliases[name].data)
           sends == isNew \/ diff.changes # 0
           req == IF isNew THEN Alias_add(alias) ELSE process_aliases_change(alias, diff)
       IN  \E st \in Statuses :
             /\ ~sends => st = StatusOK
             /\ acts' = acts \cup
                   (IF isNew THEN {<<"alias", name, "add">>}
                    ELSE IF sends THEN {<<"alias", name, "replace">>} ELSE {})
             /\ wire' = IF sends THEN Append(wire, Sent(req, st)) ELSE wire
             /\ rsalias' = IF sends /\ OK(st) THEN Provider_aliases(rsalias, req)
                           ELSE rsalias
             /\ stored' = stored \cup {<<"alias", Email(alias.name)>>}
             /\ clean' = (clean /\ OK(st))
    /\ Advance("aliases.rs", Listed(DOMAIN rs_aliases), "done")
    /\ UNCHANGED <<conf, boxes, rsacl, fexc, cfg_accounts, cfg_aliases, rs_accounts,
                   rs_aliases, prev>>
    /\ UNCHANGED <<incVars, diffVars, objVars>>

\* process_aliases (sync.py:287-289), one pass of the second loop: remove
\* for a name not configured; with its last pass process_domain returns.
process_aliases_rs ==
    /\ fpc = "aliases.rs" /\ fexc = "" /\ todo # <<>>
    /\ LET name == Head(todo)
           gone == name \notin Keys(cfg_aliases)
           req == Alias_remove(rs_aliases[name])
       IN  \E st \in Statuses :
             /\ ~gone => st = StatusOK
             /\ acts' = IF gone THEN acts \cup {<<"alias", name, "remove">>} ELSE acts
             /\ wire' = IF gone THEN Append(wire, Sent(req, st)) ELSE wire
             /\ rsalias' = IF gone /\ OK(st) THEN Provider_aliases(rsalias, req)
                           ELSE rsalias
             /\ clean' = (clean /\ OK(st))
    /\ Advance("done", <<>>, "done")
    /\ UNCHANGED <<conf, boxes, rsacl, fexc, cfg_accounts, cfg_aliases, rs_accounts,
                   rs_aliases, prev, stored>>
    /\ UNCHANGED <<incVars, diffVars, objVars>>

\* ------------------------------------------------- sync.py: initial states
\* At most this many accounts, alias declarations, mailboxes and provider
\* aliases exist together when the driver is first run.
MaxFull == 3

\* Names as the configuration writes them.
CfgNames == {"Amy", "bob"}
CfgAliases == {"Sales", "sales"}
CfgAliasLists ==
    {<<>>} \cup {<<x>> : x \in CfgAliases}
           \cup {p \in CfgAliases \X CfgAliases : p[1] # p[2]}
AccountConfs ==
    [name : CfgNames, firstName : {"A"}, aliases : CfgAliasLists, spam : BOOLEAN]
    \cup \* `enabled: "yes"`, a string where the schema has a bool
    {[name |-> "bob", firstName |-> "A", aliases |-> <<>>, spam |-> FALSE,
      enabled |-> <<"str", "yes">>]}
Confs ==
    {<<>>} \cup {<<a>> : a \in AccountConfs}
           \cup {p \in AccountConfs \X AccountConfs : p[1].name # p[2].name}
\* The size of a configuration: its accounts and the aliases they declare,
\* an alias that the account before has declared not being counted again.
Weight(c) ==
    IF c = <<>> THEN 0
    ELSE IF Len(c) = 1 THEN 1 + Len(c[1].aliases)
    ELSE 2 + Len(c[1].aliases)
           + Cardinality({j \in 1..Len(c[2].aliases) :
                 \A x \in Range(c[1].aliases) :
                     Lower(LocalPart(x)) # Lower(LocalPart(c[2].aliases[j]))})

\* What the provider holds: a mailbox as its GET returns it (an empty
\* string may come back as a single space), an alias with its members.
BoxKeys == {"amy", "bob", "old"}
Box(k, fname) ==
    [name |-> k, firstName |-> fname, lastName |-> " ", displayName |-> fname,
     enabled |-> TRUE, size |-> 25600, currentUsage |-> 512]
BoxStates ==
    UNION {[S -> {"A", "B"}] : S \in SUBSET BoxKeys}
AliasKeys == {"sales", "info"}
MemberLists ==
    {<<"Amy@x.com">>, <<"Amy@x.com", "bob@x.com">>, <<"bob@x.com", "old@x.com">>}
AliasStates ==
    UNION {[S -> MemberLists] : S \in SUBSET AliasKeys}

FullInit ==
    /\ \E c \in Confs :
          /\ Weight(c) <= MaxFull
          /\ conf = c
          /\ \E bx \in BoxStates :
                /\ Weight(c) + Cardinality(DOMAIN bx) <= MaxFull
                /\ boxes = [k \in DOMAIN bx |-> Box(k, bx[k])]
                /\ \E al \in AliasStates :
                      /\ Weight(c) + Cardinality(DOMAIN bx) + Cardinality(DOMAIN al) <= MaxFull
                      /\ rsalias = [k \in DOMAIN al |-> [name |-> k, data |-> al[k]]]
                /\ \E acl \in {{}, DOMAIN bx} : rsacl = acl
    /\ fpc = "idle" /\ fexc = ""
    /\ cfg_accounts = <<>> /\ cfg_aliases = <<>>
    /\ rs_accounts = <<>> /\ rs_aliases = <<>>
    /\ todo = <<>> /\ wire = <<>> /\ acts = {}
    /\ clean = TRUE /\ prev = [end |-> "none", sent |-> FALSE] /\ stored = {}
    /\ IncIdle
    /\ DiffIdle
    /\ ObjIdle

FullNext ==
    \/ process_domain
    \/ Accounts_get
    \/ process_accounts_cfg
    \/ process_accounts_rs
    \/ Aliases_get
    \/ process_aliases_cfg
    \/ process_aliases_rs

SpecFull == FullInit /\ [][FullNext]_vars

\* ------------------------------------------------------ full sync: claims
\* The keys for which a method of the entity class was entered in this run.
Entered(class, method) == {a[2] : a \in {x \in acts : x[1] = class /\ x[3] = method}}

\* process_accounts / process_aliases has returned or raised in this run.
AccountsEnded ==
    \/ fpc \in {"Aliases.get", "aliases.cfg", "aliases.rs", "done"}
    \/ fpc \in {"accounts.cfg", "accounts.rs"} /\ fexc # ""
AliasesEnded == fpc = "done" \/ (fpc \in {"aliases.cfg", "aliases.rs"} /\ fexc # "")

AccountDiffers(k) == DOMAIN Account_diff(At(cfg_accounts, k).obj, rs_accounts[k]) # {}
AliasDiffers(k) == Alias_diff(At(cfg_aliases, k).data, rs_aliases[k].data).changes # 0

\* C5: when the reconcile of a desired map D against an observed map O has
\* ended, add was called exactly for the keys of D not in O, remove exactly
\* for the keys of O not in D, and update only for keys of both whose diff
\* is not empty; so no key has both add and update, and no removed key has
\* either.
C5_ReconcilePartition ==
    /\ AccountsEnded =>
          /\ Entered("account", "add") = Keys(cfg_accounts) \ DOMAIN rs_accounts
          /\ Entered("account", "remove") = DOMAIN rs_accounts \ Keys(cfg_accounts)
          /\ Entered("account", "update")
                \subseteq {k \in Keys(cfg_accounts) \cap DOMAIN rs_accounts : AccountDiffers(k)}
    /\ AliasesEnded =>
          /\ Entered("alias", "add") = Keys(cfg_aliases) \ DOMAIN rs_aliases
          /\ Entered("alias", "remove") = DOMAIN rs_aliases \ Keys(cfg_aliases)
          /\ Entered("alias", "replace")
                \subseteq {k \in Keys(cfg_aliases) \cap DOMAIN rs_aliases : AliasDiffers(k)}
    /\ Entered("account", "add") \cap Entered("account", "update") = {}
    /\ Entered("alias", "add") \cap Entered("alias", "replace") = {}
    /\ Entered("account", "remove")
          \cap (Entered("account", "add") \cup Entered("account", "update")) = {}
    /\ Entered("alias", "remove")
          \cap (Entered("alias", "add") \cup Entered("alias", "replace")) = {}

\* What holds of C5 in every state: no method is entered for a key outside
\* its part, and the parts are covered when the two loops return.
PartitionWhenReturned ==
    /\ Entered("account", "add") \subseteq Keys(cfg_accounts) \ DOMAIN rs_accounts
    /\ Entered("account", "remove") \subseteq DOMAIN rs_accounts \ Keys(cfg_accounts)
    /\ Entered("account", "update")
          \subseteq {k \in Keys(cfg_accounts) \cap DOMAIN rs_accounts : AccountDiffers(k)}
    /\ Entered("alias", "add") \subseteq Keys(cfg_aliases) \ DOMAIN rs_aliases
    /\ Entered("alias", "remove") \subseteq DOMAIN rs_aliases \ Keys(cfg_aliases)
    /\ Entered("alias", "replace")
          \subseteq {k \in Keys(cfg_aliases) \cap DOMAIN rs_aliases : AliasDiffers(k)}
    /\ (AccountsEnded /\ fexc = "") =>
          /\ Entered("account", "add") = Keys(cfg_accounts) \ DOMAIN rs_accounts
          /\ Entered("account", "remove") = DOMAIN rs_accounts \ Keys(cfg_accounts)
          /\ Entered("account", "update")
                = {k \in Keys(cfg_accounts) \cap DOMAIN rs_accounts : AccountDiffers(k)}
    /\ fpc = "done" =>
          /\ Entered("alias", "add") = Keys(cfg_aliases) \ DOMAIN rs_aliases
          /\ Entered("alias", "remove") = DOMAIN rs_aliases \ Keys(cfg_aliases)
          /\ Entered("alias", "replace")
                = {k \in Keys(cfg_aliases) \cap DOMAIN rs_aliases : AliasDiffers(k)}

\* The keys the provider would list now, and the values of a keyed list.
RemoteAccountKeys == {Lower(boxes[k].name) : k \in DOMAIN boxes}
RemoteAliasKeys == {Lower(rsalias[k].name) : k \in DOMAIN rsalias}
Values(m) == {m[i][2] : i \in DOMAIN m}

SameIgnoringCase(a, b) ==
    \/ a = b
    \/ {a, b} = {"Amy", "amy"}
    \/ {a, b} = {"Sales", "sales"}

\* C7: a desired entity and an observed entity whose names differ only in
\* letter case and whose content is equal are one entity: the run calls no
\* add, update, replace or remove for that name.
C7_KeysCompareLowerCased ==
    /\ \A d \in Values(cfg_accounts) : \A k \in DOMAIN rs_accounts :
          (/\ SameIgnoringCase(LocalPart(d.obj.name), rs_accounts[k].name)
           /\ DOMAIN Account_diff(d.obj, rs_accounts[k]) = {})
          => \A a \in acts :
                a[1] = "account" => ~SameIgnoringCase(a[2], rs_accounts[k].name)
    /\ \A d \in Values(cfg_aliases) : \A k \in DOMAIN rs_aliases :
          (/\ SameIgnoringCase(d.name, rs_aliases[k].name)
           /\ Alias_diff(d.data, rs_aliases[k].data).changes = 0)
          => \A a \in acts :
                a[1] = "alias" => ~SameIgnoringCase(a[2], rs_aliases[k].name)

C7_Witness ==
    /\ fpc = "done"
    /\ \E d \in Values(cfg_accounts) : \E k \in DOMAIN rs_accounts :
          /\ LocalPart(d.obj.name) = "Amy" /\ rs_accounts[k].name = "amy"
          /\ DOMAIN Account_diff(d.obj, rs_accounts[k]) = {}

\* The same case for an alias.
SameAliasIgnoringCase ==
    /\ fpc = "done"
    /\ \E d \in Values(cfg_aliases) : \E k \in DOMAIN rs_aliases :
          /\ d.name = "Sales" /\ rs_aliases[k].name = "sales"
          /\ Alias_diff(d.data, rs_aliases[k].data).changes = 0

\* The requests of this run that name the alias with key k.
AliasRequests(k) ==
    {i \in DOMAIN wire : wire[i].path[1] = "aliases" /\ Lower(wire[i].path[2]) = k}

\* C10: for an alias that exists and differs, the run sends exactly one
\* request, chosen by the size of the delta: one address added or removed
\* is a POST or DELETE of that address below the alias, more than one
\* change is a PUT of all desired addresses.
C10_OneCallByDeltaSize ==
    \A k \in Entered("alias", "replace") :
        LET alias == At(cfg_aliases, k)
            want == Alias_update(alias, Alias_diff(alias.data, rs_aliases[k].data))
        IN  /\ Cardinality(AliasRequests(k)) = 1
            /\ \A i \in AliasRequests(k) :
                  /\ wire[i].verb = want.verb
                  /\ wire[i].path = want.path
                  /\ want.verb = "PUT" => wire[i].data = want.data

\* What holds of C10 in every state: an alias that differs gets exactly one
\* request, the PUT of all desired addresses.
OneReplacePerChangedAlias ==
    \A k \in Entered("alias", "replace") :
        /\ Cardinality(AliasRequests(k)) = 1
        /\ \A i \in AliasRequests(k) :
              /\ wire[i].verb = "PUT"
              /\ wire[i].path = AliasPath(At(cfg_aliases, k).name)
              /\ wire[i].data = [aliasEmails |-> At(cfg_aliases, k).data]

\* ------------------------------------------------- rackspace: Settings, ACL
\* Python's None as a value of its own.
PyNone == [None |-> TRUE]

\* Settings.__ACCOUNT_RS_FIELDS (spam.py:357-372) with the default of each
\* Field; a Field compares by its value, the default when none is set.
ACCOUNT_RS_FIELDS ==
    ("filterLevel" :> "on") @@ ("rsEmail.spamHandling" :> "toFolder")
    @@ ("rsEmail.hasFolderCleaner" :> TRUE) @@ ("rsEmail.spamFolderAgeLimit" :> 7)
    @@ ("rsEmail.spamFolderNumLimit" :> 250)
    @@ ("rsEmail.spamForwardingAddress" :> "")

\* Settings.__fix_value (spam.py:464-489): val is <<type, value>> as YAML or
\* JSON read it; a boolean filterLevel is 'on' or 'off'.
fix_value(key, val) ==
    IF key \in {"filterLevel", "forwardToDomainQuarantine"} /\ val[1] = "bool"
    THEN (IF val[2] THEN "on" ELSE "off")
    ELSE val[2]

\* spam.py:546-571 for a non-exchange account: the sections of the data in
\* the order the loop visits them, and the prefix of their keys.
Sections == <<"rsEmailSettings", "exchangeSettings", "rsEmail", "exchange">>
Prefix(sub) == IF sub \in {"exchangeSettings", "exchange"} THEN "exchange." ELSE "rsEmail."

\* spam.py:569-571: settings[f'{prefix}{key}'].value = fix_value(key, val)
LoadSection(fields, prefix, section) ==
    [key \in DOMAIN fields |->
        LET named == {k \in DOMAIN section : (prefix \o k) = key}
        IN  IF named = {} THEN fields[key]
            ELSE LET k == CHOOSE x \in named : TRUE IN fix_value(k, section[k])]

RECURSIVE LoadSections(_, _, _)
LoadSections(fields, subs, data) ==
    IF subs = <<>> THEN fields
    ELSE LoadSections(IF Head(subs) \in DOMAIN data
                      THEN LoadSection(fields, Prefix(Head(subs)), data[Head(subs)])
                      ELSE fields,
                      Tail(subs), data)

\* Settings.load (spam.py:526-571)
Settings_load(fields, data) ==
    LoadSections(IF "filterLevel" \in DOMAIN data
                 THEN [fields EXCEPT !["filterLevel"] =
                          fix_value("filterLevel", data["filterLevel"])]
                 ELSE fields,
                 Sections, data)

\* Settings(name=..., data=...) (spam.py:393-428): a copy of the fields,
\* then the data when there is some.
Settings_init(data) ==
    IF "None" \in DOMAIN data THEN ACCOUNT_RS_FIELDS
    ELSE Settings_load(ACCOUNT_RS_FIELDS, data)

\* Settings.diff (spam.py:509-524): the tuples (key, ours, theirs); the
\* list follows the order of a set and is kept as the set of its tuples.
Settings_diff(mine, theirs) ==
    {<<key, mine[key], theirs[key]>> :
        key \in {k \in DOMAIN mine \cup DOMAIN theirs : mine[k] # theirs[k]}}

\* ACL.load (spam.py:772-783): list(set(data)), kept as the set of its items.
ACL_load(data) == Range(data)

\* Without the shortcut for equal lists.
ACL_eq_skipped(mine, theirs) == FALSE

\* ACL.__eq__ (spam.py:730-731)
ACL_eq(mine, theirs) == mine = theirs

\* The two lists of the diff taken for one another.
ACL_diff_swapped(mine, theirs) ==
    IF ACL_eq(mine, theirs) THEN PyNone
    ELSE LET diff == [addList |-> theirs \ mine, removeList |-> mine \ theirs]
         IN  [key \in {k \in DOMAIN diff : diff[k] # {}} |-> diff[key]]

\* ACL.diff (spam.py:835-870): None for equal lists, else the non-empty ones
\* of addList and removeList; a comma-joined value is kept as the set it
\* joins.
ACL_diff(mine, theirs) ==
    IF ACL_eq(mine, theirs) THEN PyNone
    ELSE LET diff == [addList |-> mine \ theirs, removeList |-> theirs \ mine]
         IN  [key \in {k \in DOMAIN diff : diff[k] # {}} |-> diff[key]]

\* Spam.diff (spam.py:261-298) on Spam objects with their attributes `data`
\* (the Settings or None) and `acl` (the ACL or None of each kind; both
\* objects have every kind).  The list returned is kept as: whether
\* 'settings' is in it, and the map of its (acl, changes) tuples.  An ACL
\* compared with None raises AttributeError (spam.py:730-731).
Spam_diff(mine, theirs) ==
    LET IsNone(x) == "None" \in DOMAIN x
        differ == {k \in DOMAIN mine.acl :
                      ~(IsNone(mine.acl[k]) /\ IsNone(theirs.acl[k]))}
    IN  IF \E k \in differ : IsNone(mine.acl[k]) \/ IsNone(theirs.acl[k])
        THEN [raised |-> "AttributeError"]
        ELSE [raised |-> "",
              settings |->
                  IF IsNone(Getattr(mine, "settings", PyNone))
                     \/ IsNone(Getattr(theirs, "settings", PyNone))
                  THEN FALSE
                  ELSE mine.data # theirs.data,
              acl |-> [k \in {x \in differ :
                                 ~ACL_eq(mine.acl[x].data, theirs.acl[x].data)} |->
                          ACL_diff(mine.acl[k].data, theirs.acl[k].data)]]

\* ------------------------------------------------- the diffs on their own
\* Two entities of one kind are drawn, and diff is called on them once.
MaxLen == 3

Addresses == {"Amy@x.com", "bob@x.com", "old@x.com"}

\* Address lists of up to MaxLen entries, repeats included.
Lists == UNION {[1..n -> Addresses] : n \in 0..MaxLen}

\* Accounts as the configuration and as the provider give them.
AccountObjects ==
    {Account_init(Email(n), [firstName |-> f, lastName |-> l, password |-> "secret"]) :
        n \in CfgNames, f \in {"A", "B"}, l \in {"", "L"}}
    \cup {Account_init(k, Box(k, f)) : k \in BoxKeys, f \in {"A", "B"}}
    \cup {Account_init(Email(n), [firstName |-> "A", enabled |-> e]) :
            n \in CfgNames, e \in BOOLEAN}

\* Spam settings as the configuration (YAML) and the provider (JSON) give
\* them, each value with the type it was read as.
SettingsInputs ==
    << PyNone,
       [filterLevel |-> <<"bool", FALSE>>],
       [filterLevel |-> <<"str", "exclusive">>,
        rsEmail |-> [spamHandling |-> <<"str", "delete">>]],
       [filterLevel |-> <<"bool", TRUE>>,
        rsEmail |-> [spamFolderAgeLimit |-> <<"int", 14>>]],
       [filterLevel |-> <<"str", "on">>,
        rsEmailSettings |-> [spamHandling |-> <<"str", "toFolder">>,
                             hasFolderCleaner |-> <<"bool", TRUE>>,
                             spamFolderAgeLimit |-> <<"int", 14>>,
                             spamFolderNumLimit |-> <<"int", 250>>,
                             spamForwardingAddress |-> <<"str", "">>]] >>

\* Spam objects (spam.py:213-237): with and without settings, with and
\* without a blocklist, the other kinds of ACL being None.
SpamObjects ==
    {[data |-> d, acl |-> [blocklist |-> a]] :
        d \in {PyNone} \cup {Settings_init(SettingsInputs[i]) : i \in {2, 3}},
        a \in {PyNone} \cup {[data |-> ACL_load(l)] : l \in Lists}}

DiffInit ==
    /\ \/ kind = "Account" /\ self \in AccountObjects /\ other \in AccountObjects
       \/ kind = "Alias" /\ self \in Lists /\ other \in Lists
       \/ /\ kind = "Settings"
          /\ \E i \in DOMAIN SettingsInputs : self = Settings_init(SettingsInputs[i])
          /\ \E j \in DOMAIN SettingsInputs : other = Settings_init(SettingsInputs[j])
       \/ /\ kind = "ACL"
          /\ \E a \in Lists : self = ACL_load(a)
          /\ \E b \in Lists : other = ACL_load(b)
       \/ \* Spam(data=...) of the configuration and what its get() gives:
          \* the parts the configuration has, None for one whose GET failed
          /\ kind = "Spam"
          /\ self \in SpamObjects /\ other \in SpamObjects
          /\ "None" \in DOMAIN self.data => "None" \in DOMAIN other.data
          /\ "None" \in DOMAIN self.acl["blocklist"] =>
                 "None" \in DOMAIN other.acl["blocklist"]
       \/ \* the provider limits the rate of at most `self` requests on end
          /\ kind \in {"Api.get", "Api.put", "Api.post", "Api.delete"}
          /\ self \in 0..MaxLen
          /\ other = <<>>
       \/ \* the provider lists `total` names in pages of `size`
          /\ kind \in {"Accounts.get", "Aliases.get"}
          /\ self \in [total : 0..MaxLen + 1, size : 1..MaxLen]
          /\ other = [offset |-> 0]
    /\ out = <<>> /\ called = FALSE
    /\ IncIdle
    /\ FullIdle
    /\ ObjIdle

\* new.diff(old) for each kind
diff_Account ==
    /\ kind = "Account" /\ ~called
    /\ out' = Account_diff(self, other)
    /\ called' = TRUE
    /\ UNCHANGED <<kind, self, other>>
    /\ UNCHANGED <<incVars, fullVars, objVars>>

diff_Alias ==
    /\ kind = "Alias" /\ ~called
    /\ out' = Alias_diff(self, other)
    /\ called' = TRUE
    /\ UNCHANGED <<kind, self, other>>
    /\ UNCHANGED <<incVars, fullVars, objVars>>

diff_Settings ==
    /\ kind = "Settings" /\ ~called
    /\ out' = Settings_diff(self, other)
    /\ called' = TRUE
    /\ UNCHANGED <<kind, self, other>>
    /\ UNCHANGED <<incVars, fullVars, objVars>>

diff_ACL ==
    /\ kind = "ACL" /\ ~called
    /\ out' = ACL_diff(self, other)
    /\ called' = TRUE
    /\ UNCHANGED <<kind, self, other>>
    /\ UNCHANGED <<incVars, fullVars, objVars>>

diff_Spam ==
    /\ kind = "Spam" /\ ~called
    /\ out' = Spam_diff(self, other)
    /\ called' = TRUE
    /\ UNCHANGED <<kind, self, other>>
    /\ UNCHANGED <<incVars, fullVars, objVars>>

\* alias.update(diff) on the diff just made, when it has changes
update_Alias ==
    /\ kind = "Alias" /\ called
    /\ out.changes > 0
    /\ out' = Alias_update([name |-> "sales", data |-> self], out)
    /\ kind' = "Alias.update"
    /\ UNCHANGED <<self, other, called>>
    /\ UNCHANGED <<incVars, fullVars, objVars>>

\* The names the provider lists, in its order.
Listing == <<"Amy", "bob", "old", "Sales", "info">>

\* Accounts.get / Aliases.get without limit (account.py:519-551,
\* alias.py:402-444), one pass of `while True`: the page at the offset is
\* asked for and its rows are put in the dict by name.lower(); the loop
\* ends when offset + size > total of the answer, else the next page is
\* asked for with the size of the answer and offset + size.  `out` is the
\* dict, `called` that get returned.
get_page ==
    /\ kind \in {"Accounts.get", "Aliases.get"} /\ ~called
    /\ LET first == other.offset + 1
           last == IF other.offset + self.size < self.total
                   THEN other.offset + self.size ELSE self.total
           data == [offset |-> other.offset, size |-> self.size, total |-> self.total,
                    rows |-> SubSeq(Listing, first, last)]
           keys == {Lower(data.rows[i]) : i \in DOMAIN data.rows}
       IN  /\ out' = [k \in DOMAIN out \cup keys |->
                         IF k \in keys
                         THEN data.rows[CHOOSE i \in DOMAIN data.rows :
                                             Lower(data.rows[i]) = k /\
                                             \A j \in DOMAIN data.rows :
                                                 Lower(data.rows[j]) = k => j <= i]
                         ELSE out[k]]
           /\ IF data.offset + data.size > data.total
              THEN called' = TRUE /\ other' = other
              ELSE called' = FALSE /\ other' = [offset |-> data.offset + data.size]
    /\ UNCHANGED <<kind, self>>
    /\ UNCHANGED <<incVars, fullVars, objVars>>

\* What the provider answers: success, the fault of the rate limit, 403
\* with another fault or with no body, not found.
Responses ==
    {[status_code |-> 200, text |-> TRUE, message |-> ""],
     [status_code |-> 403, text |-> TRUE, message |-> "Exceeded request limits"],
     [status_code |-> 403, text |-> TRUE, message |-> "Forbidden"],
     [status_code |-> 403, text |-> FALSE, message |-> ""],
     [status_code |-> 404, text |-> TRUE, message |-> ""]}

\* A wrapper that returns whatever the first response is.
rate_limit_once ==
    /\ kind \in {"Api.get", "Api.put", "Api.post", "Api.delete"} /\ ~called
    /\ \E response \in Responses :
          /\ out' = Append(out, response)
          /\ called' = TRUE
    /\ UNCHANGED <<kind, self, other>>
    /\ UNCHANGED <<incVars, fullVars, objVars>>

\* inner_wrapper of rate_limit (api.py:27-42) around Api.get, put, post and
\* delete (api.py:237-336), one pass of `while True`: the request is sent,
\* and the response is returned unless it is the fault of the rate limit,
\* after which the wrapper sleeps and sends again.  `out` is the responses
\* received, `called` that the last of them was returned.
rate_limit ==
    /\ kind \in {"Api.get", "Api.put", "Api.post", "Api.delete"} /\ ~called
    /\ \E response \in Responses :
          LET limited == /\ response.status_code = 403 /\ response.text
                         /\ response.message = "Exceeded request limits"
          IN  /\ limited => Len(out) < self
              /\ out' = Append(out, response)
              /\ called' = ~limited
    /\ UNCHANGED <<kind, self, other>>
    /\ UNCHANGED <<incVars, fullVars, objVars>>

DiffNext ==
    \/ rate_limit
    \/ get_page
    \/ diff_Account
    \/ diff_Alias
    \/ diff_Settings
    \/ diff_ACL
    \/ diff_Spam
    \/ update_Alias

SpecDiff == DiffInit /\ [][DiffNext]_vars

\* A call that can take a step takes it: the program runs on.
SpecDiffFair == SpecDiff /\ WF_<<kind, other, called>>(DiffNext)

\* ----------------------------------------------------------- diff: claims
\* C8: for each kind, the diff of an entity against an identical copy is
\* empty by the kind's own test: an empty map for Account, changes = 0 for
\* Alias, an empty list for Settings, None for ACL.
C8_DiffOfCopyIsEmpty ==
    (called /\ kind \in {"Account", "Alias", "Settings", "ACL"} /\ self = other) =>
        CASE kind = "Account" -> DOMAIN out = {}
          [] kind = "Alias" -> out.changes = 0 /\ out.add = <<>> /\ out.del = <<>>
          [] kind = "Settings" -> out = {}
          [] kind = "ACL" -> "None" \in DOMAIN out

C8_Witness ==
    /\ called /\ kind = "ACL" /\ self = other /\ Cardinality(self) = 2

NoRepeats(list) == Cardinality(Range(list)) = Len(list)

\* C9: Alias.diff lists in add the addresses of self that other lacks and
\* in del those of other that self lacks, each once even when a list
\* repeats an address; changes is the length of add plus that of del; and
\* with the two aliases swapped add and del change places, as sets.
C9_AliasDiffIsSetDifference ==
    (called /\ kind = "Alias") =>
        /\ Range(out.add) = Range(self) \ Range(other)
        /\ Range(out.del) = Range(other) \ Range(self)
        /\ NoRepeats(out.add) /\ NoRepeats(out.del)
        /\ out.changes = Len(out.add) + Len(out.del)
        /\ Range(Alias_diff(other, self).del) = Range(out.add)
        /\ Range(Alias_diff(other, self).add) = Range(out.del)

C9_Witness ==
    /\ called /\ kind = "Alias"
    /\ ~NoRepeats(self) /\ ~NoRepeats(other)
    /\ out.add # <<>> /\ out.del # <<>>

\* Alias.update on its own does what C10 says of the update path: one
\* change is a POST or DELETE of that address below the alias, more than
\* one a PUT of all desired addresses.
UpdateByDeltaSize ==
    kind = "Alias.update" =>
        LET data == Alias_diff(self, other) IN
        IF data.changes > 1
        THEN out.verb = "PUT" /\ out.path = AliasPath("sales")
             /\ out.data = [aliasEmails |-> self]
        ELSE /\ Len(out.path) = 3 /\ SubSeq(out.path, 1, 2) = AliasPath("sales")
             /\ IF data.add # <<>>
                THEN out.verb = "POST" /\ out.path[3] = data.add[1]
                ELSE out.verb = "DELETE" /\ out.path[3] = data.del[1]

\* ----------------------------------------------------- rackspace: Field
\* Field(type, default, valid, test) (spam.py:42-52); valid is {} and test
\* is "" when there is none.
Field(type, default, valid, test) ==
    [type |-> type, default |-> default, valid |-> valid, test |-> test]

\* The setter without the test of the allowed values.
Field_check_anyvalue(field, val) ==
    IF ~isinstance(val, field.type) THEN "TypeError"
    ELSE IF field.test = "_positive" /\ val[1] = "int" /\ val[2] < 0 THEN "ValueError"
    ELSE ""

\* The checks of the value setter (spam.py:118-127, _positive 29-39): the
\* exception raised, "" when the value is accepted.
Field_check(field, val) ==
    IF ~isinstance(val, field.type) THEN "TypeError"
    ELSE IF field.valid # {} /\ val[2] \notin field.valid THEN "ValueError"
    ELSE IF field.test = "_positive" /\ val[1] = "int" /\ val[2] < 0 THEN "ValueError"
    ELSE ""

\* Field.value = val (spam.py:113-129) on the stored value `cur`: None clears it,
\* a value that fails a check raises before anything is stored.
Field_set(field, cur, val) ==
    IF val = Unset THEN [raised |-> "", value |-> Unset]
    ELSE IF Field_check(field, val) # "" THEN [raised |-> Field_check(field, val), value |-> cur]
    ELSE [raised |-> "", value |-> val]

\* Field.value (spam.py:101-111): the stored value, or the default
Field_value(field, cur) ==
    IF cur = Unset THEN <<field.type, field.default>> ELSE cur

\* Settings.__DOMAIN_FIELDS (spam.py:327-355)
DOMAIN_FIELDS ==
    ("filterLevel" :> Field("str", "on", {"on", "off", "exclusive"}, ""))
    @@ ("overrideUserSettings" :> Field("bool", FALSE, {}, ""))
    @@ ("rsEmail.spamHandling" :>
            Field("str", "toFolder", {"toFolder", "delete", "labelSubject", "toAddress"}, ""))
    @@ ("rsEmail.hasFolderCleaner" :> Field("bool", TRUE, {}, ""))
    @@ ("rsEmail.spamFolderAgeLimit" :> Field("int", 7, {}, "_positive"))
    @@ ("rsEmail.spamFolderNumLimit" :> Field("int", 250, {}, "_positive"))
    @@ ("rsEmail.spamForwardingAddress" :> Field("str", "", {}, ""))
    @@ ("exchange.forwardToDomainQuarantine" :> Field("str", "off", {"on", "off", "nonuser"}, ""))
    @@ ("exchange.quarantineOwner" :> Field("str", "", {}, ""))
    @@ ("exchange.removeQuarantineOwner" :> Field("bool", FALSE, {}, ""))
    @@ ("exchange.defaultQuarantineOwner" :> Field("str", "", {}, ""))
    @@ ("exchange.removeDefaultQuarantineOwner" :> Field("bool", FALSE, {}, ""))

\* Settings.__ACCOUNT_RS_FIELDS (spam.py:357-372) as Fields
ACCOUNT_RS_SCHEMA ==
    ("filterLevel" :> Field("str", "on", {"on", "off", "exclusive"}, ""))
    @@ ("rsEmail.spamHandling" :>
            Field("str", "toFolder", {"toFolder", "delete", "labelSubject", "toAddress"}, ""))
    @@ ("rsEmail.hasFolderCleaner" :> Field("bool", TRUE, {}, ""))
    @@ ("rsEmail.spamFolderAgeLimit" :> Field("int", 7, {}, "_positive"))
    @@ ("rsEmail.spamFolderNumLimit" :> Field("int", 250, {}, "_positive"))
    @@ ("rsEmail.spamForwardingAddress" :> Field("str", "", {}, ""))

\* Settings.__ACCOUNT_EX_FIELDS (spam.py:374-380)
ACCOUNT_EX_FIELDS ==
    ("filterLevel" :> Field("str", "on", {"on", "off", "exclusive"}, ""))
    @@ ("sendtodomainquarantine" :> Field("bool", FALSE, {}, ""))
    @@ ("quarantineowner" :> Field("str", "", {}, ""))
    @@ ("removeQuarantineOwner" :> Field("bool", FALSE, {}, ""))

\* Settings._get_fields (spam.py:618-644); the context is "domain", "rs"
\* (account) or "ex" (exchange account)
get_fields(context) ==
    CASE context = "domain" -> DOMAIN_FIELDS
      [] context = "ex" -> ACCOUNT_EX_FIELDS
      [] OTHER -> ACCOUNT_RS_SCHEMA

\* Settings._get_account_path (spam.py:568-580) and the path of update
\* (spam.py:673-684), below the domain
SettingsPath(context) ==
    (IF context = "domain" THEN <<"">> ELSE <<context, "mailboxes", "amy">>)
        \o <<"spam", "settings">>

\* Sending the excluded fields as well.
Excluded_none(handling) == {}

\* spam.py:694-701: the fields update leaves out for a spamHandling
Excluded(handling) ==
    CASE handling = "toFolder" -> {"rsEmail.spamForwardingAddress"}
      [] handling = "toAddress" ->
            {"rsEmail.hasFolderCleaner", "rsEmail.spamFolderAgeLimit",
             "rsEmail.spamFolderNumLimit"}
      [] OTHER -> {}

\* Settings.update (spam.py:659-716) on a Settings object, override being
\* "None", "True" or "False": the exception raised and the request sent.
Settings_update(obj, override) ==
    LET fields == get_fields(obj.context)
        forced == IF override = "None" THEN obj.override ELSE override = "True"
        handling == IF "rsEmail.spamHandling" \in DOMAIN obj.data
                    THEN Field_value(fields["rsEmail.spamHandling"],
                                     obj.data["rsEmail.spamHandling"])[2]
                    ELSE ""
        keys == (DOMAIN obj.data \ Excluded(handling))
                   \cup (IF forced THEN {"overrideUserSettings"} ELSE {})
        data == [key \in keys |->
                    IF forced /\ key = "overrideUserSettings" THEN <<"bool", TRUE>>
                    ELSE Field_value(fields[key], obj.data[key])]
    IN  IF Settings_validate_override(forced, obj.context # "domain") = "Exception"
        THEN [raised |-> "Exception", sent |-> <<>>]
        ELSE [raised |-> "", sent |-> <<Request("PUT", SettingsPath(obj.context), data)>>]

\* A method that sends whether debug is set or not.
send_unless_debug_off(debug, request, status) ==
    [sent |-> <<request>>, result |-> Api_success(status)]

\* The end of every method that sends (account.py:397-403, 427-433,
\* 453-458, 479-485; alias.py:252-257, 280-285, 305-310, 356-361;
\* spam.py:711-716, 911-916): with debug set the call is printed and True
\* returned, else the request is sent and the success of its response
\* returned.
send_unless_debug(debug, request, status) ==
    IF debug THEN [sent |-> <<>>, result |-> "True"]
    ELSE [sent |-> <<request>>, result |-> Api_success(status)]

\* ------------------------------------------- one object: Settings methods
\* Settings(name=..., exchange=..., override=...) (spam.py:393-428) without
\* data: the override is validated, then every Field is unset.
new_Settings ==
    /\ ent.class = "none"
    /\ \E context \in {"domain", "rs", "ex"}, override \in BOOLEAN, debug \in BOOLEAN :
          LET raised == Settings_validate_override(override, context # "domain") IN
          /\ eop' = [name |-> "Settings", context |-> context, override |-> override]
          /\ eerr' = IF raised = "Exception" THEN raised ELSE ""
          /\ ent' = IF raised = "Exception" THEN ent
                    ELSE [class |-> "Settings", debug |-> debug,
                          context |-> context, override |-> override,
                          data |-> [k \in DOMAIN get_fields(context) |-> Unset]]
    /\ esent' = <<>> /\ ewas' = ent
    /\ UNCHANGED <<incVars, fullVars, diffVars>>

\* The items a load is given: <<section, key>>, "" for the top level.
LoadItems ==
    {<<"", "filterLevel">>, <<"rsEmail", "spamHandling">>,
     <<"rsEmail", "hasFolderCleaner">>, <<"rsEmail", "spamFolderAgeLimit">>,
     <<"rsEmail", "spamForwardingAddress">>}

\* The values they come with.
LoadValues ==
    {<<"str", "off">>, <<"str", "toAddress">>, <<"str", "a@b.c">>,
     <<"int", 3>>, <<"int", -1>>, <<"bool", TRUE>>, Unset}

\* spam.py:550-560: the prefix of a section's keys in a context
PrefixIn(context, section) ==
    IF section = "" \/ context = "ex" THEN "" ELSE Prefix(section)

\* Settings.load (spam.py:540-566), one assignment of it:
\* settings[f'{prefix}{key}'].value = fix_value(key, val)
load_Settings ==
    /\ ent.class = "Settings"
    /\ \E item \in LoadItems, val \in LoadValues :
          LET key == PrefixIn(ent.context, item[1]) \o item[2]
              fixed == IF val[1] = "bool"
                          /\ item[2] \in {"filterLevel", "forwardToDomainQuarantine"}
                       THEN <<"str", fix_value(item[2], val)>>
                       ELSE val
          IN  /\ eop' = [name |-> "load", key |-> key, val |-> fixed]
              /\ IF key \notin DOMAIN ent.data
                 THEN eerr' = "KeyError" /\ ent' = ent
                 ELSE LET set == Field_set(get_fields(ent.context)[key], ent.data[key], fixed)
                      IN  /\ eerr' = set.raised
                          /\ ent' = [ent EXCEPT !.data[key] = set.value]
    /\ esent' = <<>> /\ ewas' = ent
    /\ UNCHANGED <<incVars, fullVars, diffVars>>

\* settings.update(override) (spam.py:659-716)
update_Settings ==
    /\ ent.class = "Settings"
    /\ \E override \in {"None", "True", "False"}, put \in Statuses :
          LET did == Settings_update(ent, override)
              end == send_unless_debug(ent.debug, did.sent[1], put)
          IN
          /\ eop' = [name |-> "update", override |-> override,
                     result |-> IF did.raised # "" THEN "" ELSE end.result]
          /\ eerr' = did.raised
          /\ esent' = IF did.raised # "" THEN <<>> ELSE end.sent
    /\ ent' = ent /\ ewas' = ent
    /\ UNCHANGED <<incVars, fullVars, diffVars>>

\* -------------------------------------------- one object: Account methods
\* The dicts an Account is given: as the configuration has them (with and
\* without a password, a size written as a string, a value of the wrong
\* type) and as the provider returns them, the names under contactInfo,
\* once followed by a value of the wrong type; and with displayName and
\* the names at either level, before and after contactInfo.
AccountData ==
    { <<>>,
      << <<"firstName", <<"str", "A">>>>, <<"password", <<"str", "secret">>>> >>,
      << <<"firstName", <<"str", "B">>>>, <<"size", <<"str", "12">>>> >>,
      << <<"lastName", <<"str", "L">>>>, <<"firstName", <<"int", 5>>>> >>,
      << <<"size", <<"str", "big">>>> >>,
      << <<"name", <<"str", "amy">>>>,
         <<"contactInfo", <<"dict", << <<"firstName", <<"str", "A">>>>,
                                       <<"lastName", <<"str", " ">>>> >> >>>>,
         <<"size", <<"int", 1024>>>>, <<"currentUsage", <<"int", 512>>>>,
         <<"isRecoverable", <<"bool", TRUE>>>> >>,
      << <<"contactInfo", <<"dict", << <<"firstName", <<"str", "A">>>> >> >>>>,
         <<"enabled", <<"str", "yes">>>> >>,
      << <<"contactInfo", <<"dict", << <<"firstName", <<"str", "A">>>> >> >>>>,
         <<"lastName", <<"str", "L">>>> >>,
      << <<"contactInfo", <<"dict", << <<"firstName", <<"str", "A">>>>,
                                       <<"lastName", <<"str", "L">>>> >> >>>>,
         <<"displayName", <<"str", "Boss">>>> >>,
      << <<"displayName", <<"str", "Boss">>>>, <<"lastName", <<"str", "L">>>>,
         <<"contactInfo", <<"dict", << <<"firstName", <<"str", "A">>>> >> >>>> >> }

\* Account(name, data) (account.py:121-161): `if data: self.load(data)`
new_Account ==
    /\ ent.class = "none"
    /\ \E data \in AccountData, debug \in BOOLEAN :
          LET obj == [name |-> "amy", enabled |-> DEFAULTS.enabled, size |-> DEFAULTS.size]
              did == Account_load_items(obj, data)
          IN  /\ eop' = [name |-> "Account", data |-> data]
              /\ IF data = <<>>
                 THEN eerr' = "" /\ ent' = [class |-> "Account", debug |-> debug,
                                           loaded |-> FALSE, obj |-> obj]
                 ELSE /\ eerr' = did.raised
                      /\ ent' = IF did.raised # "" THEN ent
                                ELSE [class |-> "Account", debug |-> debug,
                                      loaded |-> TRUE, obj |-> did.obj]
    /\ esent' = <<>> /\ ewas' = ent
    /\ UNCHANGED <<incVars, fullVars, diffVars>>

\* account.load(data) (account.py:197-268): refused once loaded; a value
\* of the wrong type raises when its item is reached, the items before it
\* set, and the flag is set by a call that returns.
load_Account ==
    /\ ent.class = "Account"
    /\ \E data \in AccountData :
          LET did == Account_load_items(ent.obj, data) IN
          /\ eop' = [name |-> "Account.load", data |-> data]
          /\ IF ent.loaded
             THEN eerr' = "DuplicateLoadError" /\ ent' = ent
             ELSE /\ eerr' = did.raised
                  /\ ent' = [ent EXCEPT !.obj = did.obj, !.loaded = (did.raised = "")]
    /\ esent' = <<>> /\ ewas' = ent
    /\ UNCHANGED <<incVars, fullVars, diffVars>>

\* account.add(recover=...) (account.py:344-403) with no data given, as sync
\* calls it: every field that is not read-only is posted, an unset one as
\* the default of its type, and recoverDeleted is true when recovering.
add_Account ==
    /\ ent.class = "Account"
    /\ \E recover \in BOOLEAN, post \in Statuses :
          LET data == Account_add_data(ent.obj)
              end == send_unless_debug(ent.debug,
                        Request("POST", AccountPath(ent.obj.name),
                                IF recover THEN SetKey(data, "recoverDeleted", TRUE)
                                ELSE data), post)
          IN
          /\ eop' = [name |-> "Account.add", recover |-> recover, result |-> end.result]
          /\ esent' = end.sent
    /\ eerr' = "" /\ ent' = ent /\ ewas' = ent
    /\ UNCHANGED <<incVars, fullVars, diffVars>>

\* account.update(data) (account.py:462-485)
update_Account ==
    /\ ent.class = "Account"
    /\ \E data \in {[firstName |-> "B"], [enabled |-> FALSE, size |-> 1024]},
          put \in Statuses :
          LET end == send_unless_debug(ent.debug, Account_update(ent.obj, data), put) IN
          /\ eop' = [name |-> "Account.update", data |-> data, result |-> end.result]
          /\ esent' = end.sent
    /\ eerr' = "" /\ ent' = ent /\ ewas' = ent
    /\ UNCHANGED <<incVars, fullVars, diffVars>>

\* account.rename(newname) (account.py:435-460)
rename_Account ==
    /\ ent.class = "Account"
    /\ \E newname \in {"bob"}, put \in Statuses :
          LET end == send_unless_debug(ent.debug,
                        Account_update(ent.obj, [name |-> newname]), put) IN
          /\ eop' = [name |-> "Account.rename", newname |-> newname,
                     result |-> end.result]
          /\ esent' = end.sent
    /\ eerr' = "" /\ ent' = ent /\ ewas' = ent
    /\ UNCHANGED <<incVars, fullVars, diffVars>>

\* account.remove() (account.py:405-433): without debug the user is asked,
\* and any answer but y/yes returns True without a request.
remove_Account ==
    /\ ent.class = "Account"
    /\ \E answer \in {"yes", "no"}, del \in Statuses :
          LET end == send_unless_debug(ent.debug, Account_remove(ent.obj), del) IN
          /\ eop' = [name |-> "Account.remove",
                     result |-> IF ~ent.debug /\ answer = "no" THEN "True"
                                ELSE end.result]
          /\ esent' = IF ~ent.debug /\ answer = "no" THEN <<>> ELSE end.sent
    /\ eerr' = "" /\ ent' = ent /\ ewas' = ent
    /\ UNCHANGED <<incVars, fullVars, diffVars>>

\* ---------------------------------------------- one object: Alias methods
\* What an Alias is given, <<shape, value>>: nothing, address= one address
\* or a list, data= a list (a document of the sync directory), a row of the
\* provider with singleMemberName or with emailAddressList, a row with
\* neither.
AliasArgs ==
    {<<"None", <<>>>>, <<"row", <<>>>>}
    \cup {<<"address", a>> : a \in Addresses}
    \cup {<<"singleMemberName", a>> : a \in Addresses}
    \cup {<<shape, list>> : shape \in {"addresses", "list", "emailAddressList"},
                            list \in Lists}

\* A load that does not look at the flag.
Alias_load_again(alias, arg) ==
    [raised |-> "", alias |-> [alias EXCEPT !.data = arg[2], !.loaded = TRUE]]

\* Alias.__load (alias.py:114-161): the exception raised ("" for none) and
\* the alias as the call leaves it.
Alias_load(alias, arg) ==
    IF alias.loaded THEN [raised |-> "DuplicateLoadError", alias |-> alias]
    ELSE IF arg[1] = "None" THEN [raised |-> "", alias |-> alias]
    ELSE IF arg[1] = "row" THEN [raised |-> "Exception", alias |-> alias]
    ELSE IF arg[1] \in {"address", "singleMemberName"}
    THEN [raised |-> "", alias |-> [alias EXCEPT !.data = <<arg[2]>>, !.loaded = TRUE]]
    ELSE [raised |-> "", alias |-> [alias EXCEPT !.data = arg[2], !.loaded = TRUE]]

\* Alias(name, address=...) / Alias(name, data=...) (alias.py:41-58)
new_Alias ==
    /\ ent.class = "none"
    /\ \E arg \in AliasArgs, debug \in BOOLEAN :
          LET did == Alias_load([class |-> "Alias", debug |-> debug, loaded |-> FALSE,
                                 name |-> LocalPart("sales@x.com"), data |-> <<>>], arg)
          IN  /\ eop' = [name |-> "Alias", arg |-> arg]
              /\ eerr' = did.raised
              /\ ent' = IF did.raised # "" THEN ent ELSE did.alias
    /\ esent' = <<>> /\ ewas' = ent
    /\ UNCHANGED <<incVars, fullVars, diffVars>>

\* alias.load(data) (alias.py:102-112)
load_Alias ==
    /\ ent.class = "Alias"
    /\ \E arg \in AliasArgs :
          LET did == Alias_load(ent, arg) IN
          /\ arg[1] \notin {"address", "addresses"}
          /\ eop' = [name |-> "Alias.load", arg |-> arg]
          /\ eerr' = did.raised
          /\ ent' = did.alias
    /\ esent' = <<>> /\ ewas' = ent
    /\ UNCHANGED <<incVars, fullVars, diffVars>>

\* alias.add_address(address) (alias.py:163-175)
add_address ==
    /\ ent.class = "Alias"
    /\ \E address \in Addresses :
          /\ eop' = [name |-> "add_address", address |-> address]
          /\ ent' = Alias_add_address(ent, address)
    /\ eerr' = "" /\ esent' = <<>> /\ ewas' = ent
    /\ UNCHANGED <<incVars, fullVars, diffVars>>

\* alias.add() (alias.py:233-257)
add_Alias ==
    /\ ent.class = "Alias"
    /\ \E post \in Statuses :
          LET end == send_unless_debug(ent.debug, Alias_add(ent), post) IN
          /\ eop' = [name |-> "Alias.add", result |-> end.result]
          /\ esent' = end.sent
    /\ eerr' = "" /\ ent' = ent /\ ewas' = ent
    /\ UNCHANGED <<incVars, fullVars, diffVars>>

\* alias.replace() (alias.py:259-285)
replace_Alias ==
    /\ ent.class = "Alias"
    /\ \E put \in Statuses :
          LET end == send_unless_debug(ent.debug, Alias_replace(ent), put) IN
          /\ eop' = [name |-> "Alias.replace", result |-> end.result]
          /\ esent' = end.sent
    /\ eerr' = "" /\ ent' = ent /\ ewas' = ent
    /\ UNCHANGED <<incVars, fullVars, diffVars>>

\* alias.remove() (alias.py:288-310)
remove_Alias ==
    /\ ent.class = "Alias"
    /\ \E del \in Statuses :
          LET end == send_unless_debug(ent.debug, Alias_remove(ent), del) IN
          /\ eop' = [name |-> "Alias.remove", result |-> end.result]
          /\ esent' = end.sent
    /\ eerr' = "" /\ ent' = ent /\ ewas' = ent
    /\ UNCHANGED <<incVars, fullVars, diffVars>>

\* alias.update(data) (alias.py:312-361) with the diff against a list of
\* the provider: a diff without changes raises before debug is looked at.
call_update_Alias ==
    /\ ent.class = "Alias"
    /\ \E theirs \in MemberLists, answer \in Statuses :
          LET data == Alias_diff(ent.data, theirs)
              end == send_unless_debug(ent.debug, Alias_update(ent, data), answer)
          IN
          /\ eop' = [name |-> "Alias.update", data |-> data,
                     result |-> IF data.changes = 0 THEN "" ELSE end.result]
          /\ eerr' = IF data.changes = 0 THEN "Exception" ELSE ""
          /\ esent' = IF data.changes = 0 THEN <<>> ELSE end.sent
    /\ ent' = ent /\ ewas' = ent
    /\ UNCHANGED <<incVars, fullVars, diffVars>>

\* ------------------------------------------------ one object: ACL methods
\* ACL(acl='blocklist', api, name, data) (spam.py:760-790)
new_ACL ==
    /\ ent.class = "none"
    /\ \E data \in Lists, debug \in BOOLEAN :
          /\ eop' = [name |-> "ACL", data |-> data]
          /\ ent' = [class |-> "ACL", debug |-> debug, data |-> ACL_load(data)]
    /\ eerr' = "" /\ esent' = <<>> /\ ewas' = ent
    /\ UNCHANGED <<incVars, fullVars, diffVars>>

\* acl.update(data) (spam.py:879-916) with the diff against a list of the
\* provider: `if not data: return True` for the None of equal lists.
update_ACL ==
    /\ ent.class = "ACL"
    /\ \E theirs \in MemberLists, put \in Statuses :
          LET data == ACL_diff(ent.data, ACL_load(theirs))
              end == send_unless_debug(ent.debug,
                        Request("PUT", <<"mailboxes", "amy", "spam", "blocklist">>,
                                data), put)
              nothing == "None" \in DOMAIN data
          IN
          /\ eop' = [name |-> "ACL.update", data |-> data,
                     result |-> IF nothing THEN "True" ELSE end.result]
          /\ esent' = IF nothing THEN <<>> ELSE end.sent
    /\ eerr' = "" /\ ent' = ent /\ ewas' = ent
    /\ UNCHANGED <<incVars, fullVars, diffVars>>

\* ------------------------------------------------ one object: the machine
ObjInit ==
    /\ ObjIdle
    /\ IncIdle
    /\ FullIdle
    /\ DiffIdle

ObjNext ==
    \/ new_Settings
    \/ load_Settings
    \/ update_Settings
    \/ new_Account
    \/ load_Account
    \/ add_Account
    \/ new_Alias
    \/ load_Alias
    \/ add_address
    \/ update_Account
    \/ rename_Account
    \/ remove_Account
    \/ add_Alias
    \/ replace_Alias
    \/ remove_Alias
    \/ call_update_Alias
    \/ new_ACL
    \/ update_ACL

SpecObj == ObjInit /\ [][ObjNext]_vars

\* ------------------------------------------------------ one object: claims
\* The effective value of a field of the Settings object, and whether the
\* last call was an update of it, debug not set, that returned.
Effective(key) ==
    IF ent.data[key] = Unset
    THEN <<get_fields(ent.context)[key].type, get_fields(ent.context)[key].default>>
    ELSE ent.data[key]
Updated == ent.class = "Settings" /\ eop.name = "update" /\ eerr = "" /\ ~ent.debug

\* The fields the claim names as left out of the payload.
LeftOut ==
    IF "rsEmail.spamHandling" \notin DOMAIN ent.data THEN {}
    ELSE IF Effective("rsEmail.spamHandling")[2] = "toFolder"
    THEN {"rsEmail.spamForwardingAddress"}
    ELSE IF Effective("rsEmail.spamHandling")[2] = "toAddress"
    THEN {"rsEmail.hasFolderCleaner", "rsEmail.spamFolderAgeLimit",
          "rsEmail.spamFolderNumLimit"}
    ELSE {}

\* C11: Settings.update sends one PUT with every field of the context and
\* its effective value, except the forwarding address when spamHandling is
\* toFolder and the three folder-cleaner fields when it is toAddress; and a
\* load is never refused a value of the right type for one of these fields
\* because of the spamHandling in force.
C11_UpdateSendsAllButExcluded ==
    /\ Updated =>
          /\ Len(esent) = 1 /\ esent[1].verb = "PUT"
          /\ DOMAIN esent[1].data \ {"overrideUserSettings"}
                = (DOMAIN ent.data \ LeftOut) \ {"overrideUserSettings"}
          /\ \A key \in DOMAIN esent[1].data \ {"overrideUserSettings"} :
                esent[1].data[key] = Effective(key)
    /\ (/\ ent.class = "Settings" /\ eop.name = "load"
        /\ \/ eop.key = "rsEmail.spamForwardingAddress" /\ eop.val[1] = "str"
           \/ eop.key = "rsEmail.hasFolderCleaner" /\ eop.val[1] = "bool"
           \/ eop.key = "rsEmail.spamFolderAgeLimit" /\ eop.val[1] = "int" /\ eop.val[2] >= 0
        /\ eop.key \in DOMAIN ent.data)
       => (eerr = "" /\ ent.data[eop.key] = eop.val)

C11_Witness ==
    /\ Updated
    /\ ent.context = "rs"
    /\ Effective("rsEmail.spamHandling")[2] = "toFolder"
    /\ ent.data["rsEmail.spamForwardingAddress"] = <<"str", "a@b.c">>
    /\ "rsEmail.spamForwardingAddress" \notin DOMAIN esent[1].data

\* The last call was an update asked to force the settings on all accounts.
UpdateForced ==
    /\ ent.class = "Settings" /\ eop.name = "update"
    /\ eop.override = "True" \/ (eop.override = "None" /\ ent.override)

\* C12: with override true and an account name, the constructor of Settings
\* raises and makes no object, and update raises and sends no PUT; for the
\* domain both are accepted and the PUT carries overrideUserSettings = true.
C12_OverrideOnlyForDomain ==
    /\ (eop.name = "Settings" /\ eop.override /\ eop.context # "domain")
          => (eerr = "Exception" /\ ent.class = "none")
    /\ (eop.name = "Settings" /\ eop.context = "domain")
          => (eerr = "" /\ ent.class = "Settings" /\ ent.override = eop.override)
    /\ (UpdateForced /\ ent.context # "domain")
          => (eerr = "Exception" /\ esent = <<>>)
    /\ (UpdateForced /\ ent.context = "domain" /\ ~ent.debug)
          => /\ eerr = "" /\ Len(esent) = 1 /\ esent[1].verb = "PUT"
             /\ esent[1].data["overrideUserSettings"] = <<"bool", TRUE>>

C12_Witness ==
    /\ UpdateForced /\ ent.context = "rs"
    /\ eerr = "Exception" /\ esent = <<>>

\* C19: the stored value of every Field is unset or of the declared type,
\* one of the allowed values when there are some, and not negative when the
\* Field has the validator; an assignment that raises leaves the object as
\* it was; and assigning None unsets the Field, whose value is then the
\* default.
C19_FieldKeepsItsInvariant ==
    ent.class = "Settings" =>
        /\ \A key \in DOMAIN ent.data :
              LET field == get_fields(ent.context)[key]
                  val == ent.data[key]
              IN  \/ val = Unset
                  \/ /\ val[1] = field.type \/ (val[1] = "bool" /\ field.type = "int")
                     /\ field.valid = {} \/ val[2] \in field.valid
                     /\ (field.test = "_positive" /\ val[1] = "int") => val[2] >= 0
        /\ (eop.name = "load" /\ eerr # "") => ent = ewas
        /\ (eop.name = "load" /\ eop.val = Unset /\ eop.key \in DOMAIN ent.data)
              => /\ eerr = "" /\ ent.data[eop.key] = Unset
                 /\ Effective(eop.key)[2] = get_fields(ent.context)[eop.key].default

C19_Witness ==
    /\ ent.class = "Settings" /\ eop.name = "load" /\ eerr = "ValueError"
    /\ eop.key = "filterLevel" /\ ent.data["filterLevel"] = <<"str", "off">>

\* The schema fields that are neither read-only (currentUsage, createdDate,
\* lastLogin, name) nor ignored (password, recoverDeleted, name).
Compared == {"firstName", "lastName", "displayName", "enabled", "size"}

\* The value of a field, the default of its type when it is unset.
ValueOrDefault(account, f) ==
    IF f \in DOMAIN account THEN account[f]
    ELSE IF f \in {"enabled", "recoverDeleted"} THEN FALSE
    ELSE IF f \in {"size", "currentUsage"} THEN 0
    ELSE ""

\* C18: Account.diff returns exactly {f: self.f} over the schema fields that
\* are neither read-only nor ignored and whose values differ, an unset field
\* compared as the default of its type; a value is never the other account's.
C18_AccountDiffIsOwnChangedFields ==
    (kind = "Account" /\ called) =>
        /\ DOMAIN out = {f \in Compared :
                            ValueOrDefault(self, f) # ValueOrDefault(other, f)}
        /\ \A f \in DOMAIN out :
              out[f] = ValueOrDefault(self, f) /\ out[f] # ValueOrDefault(other, f)

\* The accounts differ in a field one of them has not set, in the read-only
\* name and in the ignored password; only the first is reported.
C18_Witness ==
    /\ kind = "Account" /\ called
    /\ "lastName" \notin DOMAIN self /\ "lastName" \in DOMAIN out
    /\ ValueOrDefault(self, "password") # ValueOrDefault(other, "password")
    /\ self.name # other.name
    /\ DOMAIN out \subseteq Compared

\* The last call was add on an Account, debug not set.
Added == ent.class = "Account" /\ eop.name = "Account.add" /\ ~ent.debug

\* C13: Account.add on an account with password and size makes exactly one
\* create call whose data has them; on an account without a password it
\* raises the error of a missing required field and makes no create call.
C13_AddRequiresPassword ==
    Added =>
        IF "password" \in DOMAIN ent.obj /\ "size" \in DOMAIN ent.obj
        THEN /\ eerr = "" /\ Len(esent) = 1 /\ esent[1].verb = "POST"
             /\ esent[1].data["password"] = ent.obj["password"]
             /\ esent[1].data["size"] = ent.obj["size"]
        ELSE eerr = "LookupError" /\ esent = <<>>

\* What add does: one create call in either case, a missing password
\* posted as the empty string; recoverDeleted is true exactly when add was
\* told to recover.
AddPostsDefaultForMissing ==
    Added =>
        /\ eerr = "" /\ Len(esent) = 1 /\ esent[1].verb = "POST"
        /\ esent[1].data["password"] =
              (IF "password" \in DOMAIN ent.obj THEN ent.obj["password"] ELSE "")
        /\ esent[1].data["size"] = ent.obj["size"]
        /\ esent[1].data["recoverDeleted"] = eop.recover

\* C16: in the incremental sync, an account whose remote get failed is
\* created, with recoverDeleted = true in the data when the provider marked
\* the account as recoverable and without it forced to true otherwise.
C16_FailedGetCreatesWithRecover ==
    \A f \in Files : \A c \in CallsFor(f) :
        (Len(c) = 4 /\ c[3] # StatusOK) =>
            IF c[4] THEN <<f, "POST", "recoverDeleted">> \in calls
            ELSE <<f, "POST">> \in calls

\* The last call was a load of an Account or Alias that was loaded already.
LoadedAgain ==
    /\ eop.name \in {"Account.load", "Alias.load"}
    /\ ewas.class \in {"Account", "Alias"} /\ ewas.loaded

\* The dict given to the last call has a contactInfo dict in it.
HasContactInfo ==
    /\ eop.name \in {"Account", "Account.load"}
    /\ \E i \in 1..Len(eop.data) : eop.data[i][1] = "contactInfo"

\* C17: once an Account or Alias is loaded, every later load raises
\* DuplicateLoadError and leaves every field as it was; the load of a nested
\* contactInfo dict is not refused as a second load, and it is the outer
\* call that marks the object loaded: when that call raises after the
\* contactInfo was taken, the object is not loaded.
C17_LoadedOnlyOnce ==
    /\ LoadedAgain => (eerr = "DuplicateLoadError" /\ ent = ewas)
    /\ (HasContactInfo /\ ~LoadedAgain) =>
          /\ eerr # "DuplicateLoadError"
          /\ (eop.name = "Account.load" /\ eerr # "") =>
                (~ent.loaded /\ ent.obj["firstName"] = "A")
          /\ (eerr = "") => (ent.loaded /\ ent.obj["firstName"] = "A")

\* An account loaded from a provider row with contactInfo refuses the next
\* load.
C17_Witness ==
    /\ LoadedAgain /\ eerr = "DuplicateLoadError"
    /\ ent.class = "Account" /\ ent.obj["displayName"] = "A" /\ ent.obj["size"] = 1024

\* An alias that was loaded refuses a load as well.
AliasLoadedAgain ==
    /\ LoadedAgain /\ eerr = "DuplicateLoadError"
    /\ ent.class = "Alias" /\ ent.data # <<>>

\* A load with contactInfo that raised after it left the account unloaded.
ContactInfoThenRaised ==
    /\ HasContactInfo /\ eop.name = "Account.load" /\ eerr = "TypeError"
    /\ ~ent.loaded

\* C20: after any sequence of construction (from one address, a list of
\* addresses or a row of the provider in either shape), load and
\* add_address, no address is twice in the list of an Alias.
C20_AliasHasNoDuplicate ==
    ent.class = "Alias" => NoRepeats(ent.data)

\* What holds: add_address adds no address that is in the list already, so
\* a list without duplicates stays without.
AddAddressAddsNoDuplicate ==
    (ent.class = "Alias" /\ eop.name = "add_address") =>
        /\ eop.address \in Range(ent.data)
        /\ NoRepeats(ewas.data) => NoRepeats(ent.data)
        /\ Len(ent.data) = Len(ewas.data) + (IF eop.address \in Range(ewas.data) THEN 0 ELSE 1)

\* C14: a type mismatch while one entity of the configuration is loaded (or
\* a required field missing on one create) does not abort the run: the run
\* does not end with that exception, the other entities are reconciled.
C14_EntityErrorIsIsolated ==
    fexc \notin {"TypeError", "ValueError", "LookupError"}

\* C15: a remote call that failed is seen by the driver as a result only: a
\* run in which a response failed has not ended with an exception.
C15_FailedCallNeverRaises ==
    ~clean => fexc = ""

\* AssertionError is raised by the two list requests only: a get of one
\* entity, a post, put or delete that failed is a result to the driver.
FailedRequestReturns ==
    fexc = "AssertionError" => fpc \in {"Accounts.get", "Aliases.get"}

\* C21: ACL.diff gives None when the two lists have the same entries, order
\* and repeats left aside; else a map in which addList joins the entries of
\* self that other lacks and removeList those of other that self lacks, a
\* key being left out when it has no entry.
C21_ACLDiffIsAddAndRemove ==
    (kind = "ACL" /\ called) =>
        IF \A x \in Addresses : x \in self <=> x \in other
        THEN out = PyNone
        ELSE /\ DOMAIN out \subseteq {"addList", "removeList"}
             /\ "addList" \in DOMAIN out <=> (\E x \in self : x \notin other)
             /\ "removeList" \in DOMAIN out <=> (\E x \in other : x \notin self)
             /\ "addList" \in DOMAIN out =>
                   out["addList"] = {x \in self : x \notin other}
             /\ "removeList" \in DOMAIN out =>
                   out["removeList"] = {x \in other : x \notin self}

\* Lists that share an entry, self with two more: addList alone.
C21_Witness ==
    /\ kind = "ACL" /\ called
    /\ DOMAIN out = {"addList"} /\ Cardinality(out["addList"]) = 2
    /\ other # {}

\* The last call is the paged get of the accounts or of the aliases.
Paged == kind \in {"Accounts.get", "Aliases.get"}

\* C22: Accounts.get and Aliases.get without limit ask for the pages one
\* after the other, the offset moved on by the size of the page returned,
\* until offset + size > total; for every total >= 0 and size >= 1 the get
\* returns, and its result has every name listed, under the name in lower
\* case.
C22_PagedGetReturnsAll ==
    /\ [][(Paged /\ ~called') => other'.offset = other.offset + self.size]_<<other, called>>
    /\ [][(Paged /\ called') => other.offset + self.size > self.total]_<<other, called>>
    /\ []((Paged /\ called) =>
             LET lowered == <<"amy", "bob", "old", "sales", "info">> IN
             /\ DOMAIN out = {lowered[i] : i \in 1..self.total}
             /\ \A i \in 1..self.total : out[lowered[i]] = Listing[i])
    /\ <>(Paged => called)

\* Four names in pages of two: the get returned after a third, empty page.
C22_Witness ==
    /\ Paged /\ called
    /\ self.size = 2 /\ self.total = 4 /\ other.offset = 4
    /\ Cardinality(DOMAIN out) = 4

\* The last call is one of Api.get, put, post and delete.
ApiCall == kind \in {"Api.get", "Api.put", "Api.post", "Api.delete"}

\* The response is the one by which the provider limits the rate.
RateLimited(response) ==
    response.status_code = 403 /\ response.message = "Exceeded request limits"

LoadedAccount ==
    /\ ent.class = "Account" /\ eop.name \in {"Account", "Account.load"}
    /\ eerr = "" /\ eop.data # <<>>

\* A displayName that is not empty was supplied at the top of the dict.
SuppliedDisplayName ==
    \E i \in 1..Len(eop.data) :
        eop.data[i][1] = "displayName" /\ eop.data[i][2][2] \notin {"", " "}

\* firstName + ' ' + lastName of the account, trimmed.
FullName ==
    LET fname == IF "firstName" \in DOMAIN ent.obj THEN ent.obj["firstName"] ELSE ""
        lname == IF "lastName" \in DOMAIN ent.obj THEN ent.obj["lastName"] ELSE ""
    IN  IF lname = "" THEN fname
        ELSE IF fname = "" THEN lname
        ELSE fname \o " " \o lname

\* C24: after Account.load, displayName is the value supplied when one that
\* is not empty was supplied, wherever contactInfo, firstName and lastName
\* stand in the input; when none was supplied and firstName or lastName is
\* not empty, displayName is firstName + ' ' + lastName, trimmed.
C24_DisplayNameAfterLoad ==
    LoadedAccount =>
        IF SuppliedDisplayName
        THEN \E i \in 1..Len(eop.data) :
                eop.data[i][1] = "displayName"
                    /\ ent.obj["displayName"] = eop.data[i][2][2]
        ELSE FullName # "" =>
                ("displayName" \in DOMAIN ent.obj /\ ent.obj["displayName"] = FullName)

\* What holds: a displayName supplied is kept wherever it stands, and an
\* account loaded has a displayName when it has a firstName or a lastName.
DisplayNameSuppliedIsKept ==
    LoadedAccount =>
        /\ SuppliedDisplayName => ent.obj["displayName"] = "Boss"
        /\ FullName # "" =>
              ("displayName" \in DOMAIN ent.obj /\ ent.obj["displayName"] # "")

\* C26: the list Spam.diff returns has 'settings' exactly when both Spam
\* objects carry settings and the settings differ, and (kind, ACL.diff) for
\* every kind of ACL whose entries differ; so the full sync is told of
\* desired spam settings that differ from the observed ones.
C26_SpamDiffReportsSettings ==
    (kind = "Spam" /\ called /\ out.raised = "") =>
        /\ out.settings <=>
              /\ "None" \notin DOMAIN self.data
              /\ "None" \notin DOMAIN other.data
              /\ self.data # other.data
        /\ \A k \in DOMAIN self.acl :
              k \in DOMAIN out.acl <=>
                  /\ "None" \notin DOMAIN self.acl[k]
                  /\ self.acl[k].data # other.acl[k].data

\* What holds: 'settings' is never in the list; the ACL part is as the
\* claim has it.
SpamDiffReportsACLOnly ==
    (kind = "Spam" /\ called /\ out.raised = "") =>
        /\ ~out.settings
        /\ \A k \in DOMAIN self.acl :
              /\ k \in DOMAIN out.acl <=>
                    /\ "None" \notin DOMAIN self.acl[k]
                    /\ self.acl[k].data # other.acl[k].data
              /\ k \in DOMAIN out.acl =>
                    out.acl[k] = ACL_diff(self.acl[k].data, other.acl[k].data)

\* C27: applying spam changes ends: Settings.set and ACL.set, called by the
\* incremental driver for a spam document whose get failed, return (after
\* at most one update), so the run never ends in them.
C27_SpamSetReturns ==
    \A f \in Files :
        (TypeOf(f) \in {"spam"} \cup VALID_ACL /\ <<f, "GET">> \in calls) =>
            ~(/\ pc = "crashed"
              /\ exc \in {"RecursionError", "TypeError"}
              /\ settings[f] # NoEntry)

\* C28: the success of the Account or Alias that get returns is true
\* exactly when the answer has status 200, and reading it never raises; so
\* in the incremental sync an entity the provider has is diffed and
\* updated, and only one whose get failed is created.
C28_ExistingIsUpdated ==
    \A f \in Files : \A c \in CallsFor(f) :
        (TypeOf(f) \in {"account", "alias"} /\ c[2] = "GET" /\ Len(c) >= 3) =>
            /\ ~(pc = "crashed" /\ exc = "TypeError" /\ settings[f] # NoEntry)
            /\ c[3] = StatusOK => \A d \in CallsFor(f) : d[2] # "POST"

\* What holds of an alias: whatever the answer of the get, the alias is
\* created, never diffed and updated.
AliasIsAlwaysCreated ==
    \A f \in Files : \A c \in CallsFor(f) :
        (TypeOf(f) = "alias" /\ c[2] = "GET" /\ Len(c) >= 3) =>
            /\ <<f, "POST">> \in calls
            /\ <<f, "UPDATE">> \notin calls

\* C29: in the incremental sync a changed spam-settings document, of the
\* domain or of an account, no override being asked for, gives one update
\* of the settings whose payload does not have overrideUserSettings true.
C29_NoOverrideUnlessAsked ==
    \A f \in Files :
        (TypeOf(f) = "spam" /\ <<f, "GET">> \in calls) =>
            /\ <<f, "PUT", "overrideUserSettings">> \notin calls
            /\ ~(pc = "crashed" /\ exc = "Exception" /\ settings[f] # NoEntry)

\* What holds: the update of the settings of an account is never sent, and
\* every update of the settings of the domain has overrideUserSettings true.
SettingsUpdateAlwaysOverrides ==
    \A f \in Files : \A c \in CallsFor(f) :
        (TypeOf(f) = "spam" /\ c[2] = "PUT") =>
            ~IsAccountCtx(f) /\ c = <<f, "PUT", "overrideUserSettings">>

\* An alias that two accounts of the configuration declare.
DeclaredTwice ==
    /\ Len(conf) = 2
    /\ \E x \in Range(conf[1].aliases), y \in Range(conf[2].aliases) :
          Lower(LocalPart(x)) = Lower(LocalPart(y))

\* C30: in the full sync an alias declared under several accounts gives
\* one desired Alias, keyed by its lower-cased name, whose addresses
\* include the email of every account that declares it, whatever the case
\* of the letters of the name.
C30_AliasHasEveryDeclaringAccount ==
    (fpc \notin {"idle", "init_accounts"}) =>
        \A i \in 1..Len(conf) : \A x \in Range(conf[i].aliases) :
            LET key == Lower(LocalPart(x)) IN
            /\ Cardinality({n \in 1..Len(cfg_aliases) : cfg_aliases[n][1] = key}) = 1
            /\ Email(conf[i].name) \in Range(At(cfg_aliases, key).data)

\* What holds: there is one desired Alias for the lower-cased name, and it
\* has the email of the last account that declares it; it has the email of
\* every such account when the name is declared in lower case throughout.
AliasHasLastDeclaringAccount ==
    (fpc \notin {"idle", "init_accounts"}) =>
        \A i \in 1..Len(conf) : \A x \in Range(conf[i].aliases) :
            LET key == Lower(LocalPart(x))
                same(j) == \E y \in Range(conf[j].aliases) : Lower(LocalPart(y)) = key
                last == CHOOSE j \in 1..Len(conf) :
                           same(j) /\ \A n \in (j+1)..Len(conf) : ~same(n)
                lowercase == \A j \in 1..Len(conf) : \A y \in Range(conf[j].aliases) :
                                LocalPart(y) = Lower(LocalPart(y))
            IN
            /\ Cardinality({n \in 1..Len(cfg_aliases) : cfg_aliases[n][1] = key}) = 1
            /\ Email(conf[last].name) \in Range(At(cfg_aliases, key).data)
            /\ lowercase => Email(conf[i].name) \in Range(At(cfg_aliases, key).data)

\* The last call was one of the methods that change something on the
\* provider, and it returned.
Changing ==
    /\ eop.name \in {"Account.add", "Account.update", "Account.rename",
                     "Account.remove", "Alias.add", "Alias.update",
                     "Alias.replace", "Alias.remove", "update", "ACL.update"}
    /\ eerr = ""

\* C23: with debug set, add, update, replace, rename and remove of an
\* Account or Alias and update of Settings or of an ACL send no POST, PUT
\* or DELETE and return True.
C23_DebugSendsNothing ==
    (Changing /\ ent.debug) => (esent = <<>> /\ eop.result = "True")

\* Alias.update called with debug set for a diff of one address.
C23_Witness ==
    /\ Changing /\ ent.debug
    /\ eop.name = "Alias.update" /\ eop.data.changes = 1

\* Without debug the same calls send their request: one, but for a remove
\* the user declines and an ACL update with nothing to change.
DebugOffSends ==
    (Changing /\ ~ent.debug /\ eop.name \notin {"Account.remove", "ACL.update"})
        => Len(esent) = 1

====
